---- MODULE Spec2Model ----
\* Model of the quota-usage aggregation engine of aws-service-quotas-exporter
\* (package servicequotas): the check registry, the catalog walks of
\* QuotasAndUsage and the usage checks it dispatches to.
EXTENDS Integers, Sequences, FiniteSets, TLC

\* ---------------------------------------------------------------- bounds

\* services of allServices() walked by one refresh (a prefix of the list)
NumServices == 2
\* pages one catalog listing delivers at most
MaxPages == 2
\* list items (catalog entries, resources) and pages after the first of a
\* catalog listing the provider returns over one refresh at most
MaxListed == 3
\* resources the provider lists for a check called on its own at most
MaxItems == 2
\* the longest tag key made of single characters
MaxNameLen == 4
\* the list items the provider holds for the calls of a ServiceQuotas that
\* is called more than once
MaxShared == 1

\* ---------------------------------------------------------------- values

\* a nil pointer / nil error / nil slice
Nil == <<>>
NoErr == <<>>

\* pkg/errors.Wrapf(sentinel, "%w", cause): the sentinel and what it wraps
Wrapf(sentinel, cause) == <<[kind |-> sentinel, cause |-> cause]>>

ErrFailedToListQuotas == "failed to list quotas"
ErrFailedToGetUsage == "failed to get usage"
ErrFailedToConvertCidr == "failed to convert CIDR block from string to int"

\* QuotaUsage{...}: ResourceName is a pointer (Nil or <<name>>), Tags a map
\* (Nil or a function), Quota is 0 unless the literal sets it
QuotaUsage(name, resource, desc, usage, quota, tags) ==
  [Name |-> name, ResourceName |-> resource, Description |-> desc,
   Usage |-> usage, Quota |-> quota, Tags |-> tags]

Identifier(q) == IF q.ResourceName # Nil THEN q.ResourceName[1] ELSE q.Name

\* what Usage() returns: ([]QuotaUsage, nil) or (nil, err)
Ok(usages) == [usages |-> usages, err |-> NoErr]
Fail(err) == [usages |-> Nil, err |-> err]

RECURSIVE SumSeq(_)
SumSeq(s) == IF s = <<>> THEN 0 ELSE Head(s) + SumSeq(Tail(s))

RECURSIVE Flatten(_)
Flatten(pages) == IF pages = <<>> THEN <<>> ELSE Head(pages) \o Flatten(Tail(pages))

RECURSIVE Pow2(_)
\* math.Pow(2, n) for an integer n >= 0
Pow2(n) == IF n = 0 THEN 1 ELSE 2 * Pow2(n - 1)

\* sequences over S of length lo..hi
SeqsOf(S, lo, hi) == UNION {[1..n -> S] : n \in lo..hi}

RECURSIVE Cut(_, _)
\* the items f dealt out to pages of the given lengths
Cut(f, lens) ==
  IF lens = <<>> THEN <<>>
  ELSE <<SubSeq(f, 1, Head(lens))>> \o Cut(SubSeq(f, Head(lens) + 1, Len(f)), Tail(lens))

\* a paginated listing as the SDK's XxxPages delivers it: the pages fetched
\* successfully, and whether the fetch after them fails (a listing that does
\* not fail delivers at least one page, the last one with lastPage = true);
\* at most maxPages fetches, at most maxTotal items over all pages
Listings(Items, maxPages, maxTotal) ==
  {l \in UNION {
       {[pages |-> Cut(f, lens), fails |-> b] :
          lens \in {x \in SeqsOf(0..Len(f), 0, maxPages) : SumSeq(x) = Len(f)},
          b \in BOOLEAN}
       : f \in SeqsOf(Items, 0, maxTotal)} :
     /\ l.fails \/ Len(l.pages) >= 1
     /\ l.fails => Len(l.pages) < maxPages}

\* lastPage of the k-th page: the page carries no next token
LastPage(l, k) == k = Len(l.pages) /\ ~l.fails

\* the error value of a failed provider request: the API and the request id
AwsErr(api, rid) == [api |-> api, rid |-> rid]

\* ---------------------------------------------------------------- tags.go

LowerChars == <<"a", "b", "c", "d", "e", "f", "g", "h", "i", "j", "k", "l", "m",
                "n", "o", "p", "q", "r", "s", "t", "u", "v", "w", "x", "y", "z">>
UpperChars == <<"A", "B", "C", "D", "E", "F", "G", "H", "I", "J", "K", "L", "M",
                "N", "O", "P", "Q", "R", "S", "T", "U", "V", "W", "X", "Y", "Z">>
DigitChars == <<"0", "1", "2", "3", "4", "5", "6", "7", "8", "9">>
IsLower(c) == \E d \in 1..26 : LowerChars[d] = c
IsUpper(c) == \E d \in 1..26 : UpperChars[d] = c
IsDigit(c) == \E d \in 1..10 : DigitChars[d] = c

\* invalidLabelCharactersRE = [^a-zA-Z0-9_], ReplaceAllString(s, "_")
ReplaceInvalid(s) ==
  [i \in 1..Len(s) |->
     IF IsLower(s[i]) \/ IsUpper(s[i]) \/ IsDigit(s[i]) \/ s[i] = "_" THEN s[i] ELSE "_"]

\* ReplaceString in place of ReplaceAllString: the leftmost match only
ReplaceFirstCap(s) ==
  IF \E i \in 1..(Len(s) - 1) : (IsLower(s[i]) \/ IsDigit(s[i])) /\ IsUpper(s[i + 1])
  THEN LET i == CHOOSE j \in 1..(Len(s) - 1) :
                  /\ (IsLower(s[j]) \/ IsDigit(s[j])) /\ IsUpper(s[j + 1])
                  /\ \A k \in 1..(j - 1) : ~((IsLower(s[k]) \/ IsDigit(s[k])) /\ IsUpper(s[k + 1]))
       IN SubSeq(s, 1, i) \o <<"_">> \o SubSeq(s, i + 1, Len(s))
  ELSE s

RECURSIVE ReplaceAllCap(_)
\* matchAllCap = ([a-z0-9])([A-Z]), ReplaceAllString(s, "${1}_${2}"): the
\* non-overlapping matches, leftmost first
ReplaceAllCap(s) ==
  IF Len(s) < 2 THEN s
  ELSE IF (IsLower(s[1]) \/ IsDigit(s[1])) /\ IsUpper(s[2])
       THEN <<s[1], "_", s[2]>> \o ReplaceAllCap(SubSeq(s, 3, Len(s)))
       ELSE <<s[1]>> \o ReplaceAllCap(Tail(s))

RECURSIVE toSnakeCaseKeepingCase(_)
\* the expression (.)([A-Z]) in place of matchAllCap, and no ToLower
toSnakeCaseKeepingCase(s) ==
  IF Len(s) < 2 THEN s
  ELSE IF IsUpper(s[2])
       THEN <<s[1], "_", s[2]>> \o toSnakeCaseKeepingCase(SubSeq(s, 3, Len(s)))
       ELSE <<s[1]>> \o toSnakeCaseKeepingCase(Tail(s))

\* strings.ToLower of the replaced string, character by character
toSnakeCase(s) ==
  LET snake == ReplaceAllCap(s)
  IN [i \in 1..Len(snake) |->
        IF IsUpper(snake[i]) THEN LowerChars[CHOOSE d \in 1..26 : UpperChars[d] = snake[i]]
        ELSE snake[i]]

ToPrometheusNamingFormat(s) == toSnakeCase(ReplaceInvalid(s))

\* ---------------------------------------------------------------- strconv

RECURSIVE ParseDigits(_, _)
ParseDigits(s, acc) ==
  IF s = <<>> THEN acc ELSE ParseDigits(Tail(s), 10 * acc + (CHOOSE d \in 1..10 : DigitChars[d] = Head(s)) - 1)

\* the digits of s after an optional sign
Unsigned(s) == IF s # <<>> /\ Head(s) \in {"+", "-"} THEN Tail(s) ELSE s

\* strconv.Atoi on a string given as its characters: an optional sign, then
\* one or more decimal digits; anything else is a syntax error
Atoi(s) ==
  IF Unsigned(s) = <<>> \/ \E i \in 1..Len(Unsigned(s)) : ~IsDigit(Unsigned(s)[i])
  THEN [val |-> 0, err |-> <<[func |-> "Atoi", num |-> s]>>]
  ELSE [val |-> IF Head(s) = "-" THEN 0 - ParseDigits(Unsigned(s), 0)
                ELSE ParseDigits(Unsigned(s), 0),
        err |-> NoErr]

\* ---------------------------------------------------------------- the checks' names

\* the names and descriptions of the records, as the const block of each
\* file of checks declares them
ec2Names ==
  [inboundRulesPerSecGrpName |-> "inbound_rules_per_security_group",
   inboundRulesPerSecGrpDesc |-> "inbound rules per security group",
   outboundRulesPerSecGrpName |-> "outbound_rules_per_security_group",
   outboundRulesPerSecGrpDesc |-> "outbound rules per security group",
   eNIsPerRegionName |-> "enis_per_region",
   eNIsPerRegionDescription |-> "ENIs per region",
   secGroupsPerENIName |-> "security_groups_per_network_interface",
   secGroupsPerENIDesc |-> "security groups per network interface",
   securityGroupsPerRegionName |-> "security_groups_per_region",
   securityGroupsPerRegionDesc |-> "security groups per region",
   spotInstanceRequestsName |-> "spot_instance_requests",
   spotInstanceRequestsDesc |-> "spot instance requests",
   onDemandInstanceRequestsName |-> "ondemand_instance_requests",
   onDemandInstanceRequestsDesc |-> "ondemand instance requests",
   availableIPsPerSubnetName |-> "available_ips_per_subnet",
   availableIPsPerSubnetDesc |-> "available IPs per subnet",
   ebsSnapshotsPerRegionName |-> "ebs_snapshots_per_region",
   ebsSnapshotsPerRegionDescription |-> "EBS snapshots per region",
   maxGp3StoragePerRegionName |-> "gp3_storage_per_region",
   maxGp3StoragePerRegionDescription |-> "GP3 storage per region",
   maxGp2StoragePerRegionName |-> "gp2_storage_per_region",
   maxGp2StoragePerRegionDescription |-> "GP2 storage per region",
   maxIo1StoragePerRegionName |-> "io1_storage_per_region",
   maxIo1StoragePerRegionDescription |-> "IO1 storage per region",
   maxIo2StoragePerRegionName |-> "io2_storage_per_region",
   maxIo2StoragePerRegionDescription |-> "IO2 storage per region",
   maxSt1StoragePerRegionName |-> "st1_storage_per_region",
   maxSt1StoragePerRegionDescription |-> "ST1 storage per region",
   maxStandardStoragePerRegionName |-> "standard_storage_per_region",
   maxStandardStoragePerRegionDescription |-> "standard storage per region",
   maxSc1StoragePerRegionName |-> "sc1_storage_per_region",
   maxSc1StoragePerRegionDescription |-> "SC1 storage per region",
   maxIo2IopsPerRegionName |-> "total_io2_iops_per_region",
   maxIo2IopsPerRegionDescription |-> "total IO2 IOPS per region",
   maxIo1IopsPerRegionName |-> "total_io1_iops_per_region",
   maxIo1IopsPerRegionDescription |-> "total IO1 IOPS per region"]

ecrNames ==
  [repositoriesPerRegionName |-> "repositories_per_region",
   repositoriesPerRegionDescription |-> "repositories per region",
   imagesPerRepositoryName |-> "images_per_repository",
   imagesPerRepositoryDescription |-> "images per repository"]

kinesisanalyticsNames ==
  [flinkKPUsPerAppName |-> "kpus_per_flink_app",
   flinkKPUsPerAppDescription |-> "KPUs per flink app",
   appsPerRegionName |-> "apps_per_region",
   appsPerRegionDescription |-> "apps per region"]

sesNames ==
  [maxSendIn24HoursName |-> "max_send_in_24_hours",
   maxSendIn24HoursDescription |-> "max send in 24 hours"]

asgNames ==
  [instancesPerASGName |-> "instances_per_asg",
   instancesPerASGDescription |-> "instances per ASG"]

logsNames ==
  [logGroupsPerRegionName |-> "log_groups_per_region",
   logGroupsPerRegionDescription |-> "log groups per region"]

redshiftNames ==
  [userSnapshotsPerRegionName |-> "user_snapshots_per_region",
   userSnapshotsPerRegionDescription |-> "user snapshots per region"]

rdsNames ==
  [numReadReplicasPerMasterName |-> "read_replicas_per_master",
   numReadReplicasPerMasterDescription |-> "read replicas per master",
   MaxTotalStorageCheckName |-> "max_total_storage",
   MaxTotalStorageCheckDescription |-> "max total storage"]

glueNames ==
  [jobsPerTriggerName |-> "glue_jobs_per_trigger",
   jobsPerTriggerDescription |-> "glue jobs per trigger",
   jobsName |-> "glue_jobs_per_account",
   jobsDescription |-> "glue jobs per account",
   concurrentRunsPerJobName |-> "concurrent_runs_per_glue_job",
   concurrentRunsPerJobDescription |-> "concurrent runs per glue job",
   dPUsName |-> "dpus_per_account",
   dPUsDescription |-> "DPUs per account",
   concurrentRunsName |-> "concurrent_running_glue_jobs",
   concurrentRunsDescription |-> "concurrent running glue jobs"]

\* ---------------------------------------------------------------- ec2 checks

\* out[key] = value
RECURSIVE PutTags(_, _)
\* for _, tag := range tags { out[ToPrometheusNamingFormat(*tag.Key)] = *tag.Value }
PutTags(tags, out) ==
  IF tags = <<>> THEN out
  ELSE PutTags(Tail(tags),
         [k \in DOMAIN out \cup {ToPrometheusNamingFormat(Head(tags).Key)} |->
            IF k = ToPrometheusNamingFormat(Head(tags).Key) THEN Head(tags).Value ELSE out[k]])

ec2TagsToQuotaUsageTags(tags) == IF Len(tags) = 0 THEN Nil ELSE PutTags(tags, <<>>)

RECURSIVE SumRanges(_)
\* the sum over the permissions of len(rule.IpRanges)
SumRanges(rules) ==
  IF rules = <<>> THEN 0 ELSE Head(rules).IpRanges + SumRanges(Tail(rules))

RECURSIVE SumPairs(_)
\* the sum over the permissions of len(rule.UserIdGroupPairs)
SumPairs(rules) ==
  IF rules = <<>> THEN 0 ELSE Head(rules).UserIdGroupPairs + SumPairs(Tail(rules))

\* the two records of one security group: inboundRules when inboundUsage is
\* built is the ingress ranges and pairs; the egress loop adds the ranges to
\* outboundRules and the pairs to inboundRules, after inboundUsage was built
RulesOfGroup(group) ==
  <<QuotaUsage(ec2Names.inboundRulesPerSecGrpName, <<group.GroupId>>, ec2Names.inboundRulesPerSecGrpDesc,
               SumRanges(group.IpPermissions) + SumPairs(group.IpPermissions), 0, ec2TagsToQuotaUsageTags(group.Tags)),
    QuotaUsage(ec2Names.outboundRulesPerSecGrpName, <<group.GroupId>>, ec2Names.outboundRulesPerSecGrpDesc,
               SumRanges(group.IpPermissionsEgress), 0, ec2TagsToQuotaUsageTags(group.Tags))>>

RECURSIVE RangeGroups(_)
RangeGroups(groups) ==
  IF groups = <<>> THEN <<>> ELSE RulesOfGroup(Head(groups)) \o RangeGroups(Tail(groups))

\* maxNumOfIPs := math.Pow(2, 32-float64(blockedBits))
MaxNumOfIPs(blockedBits) == Pow2(32 - blockedBits)

\* the subtraction with its operands exchanged
SubnetUsageExchanged(subnet, blockedBits) ==
  subnet.AvailableIpAddressCount - Pow2(32 - blockedBits)

\* usage := float64(maxNumOfIPs - float64(*subnet.AvailableIpAddressCount))
SubnetUsage(subnet, blockedBits) == MaxNumOfIPs(blockedBits) - subnet.AvailableIpAddressCount

\* the subnet record
AvailabilityInfo(subnet, blockedBits) ==
  QuotaUsage(ec2Names.availableIPsPerSubnetName, <<subnet.SubnetId>>, ec2Names.availableIPsPerSubnetDesc,
             SubnetUsage(subnet, blockedBits), MaxNumOfIPs(blockedBits),
             ec2TagsToQuotaUsageTags(subnet.Tags))

\* blockedBits, err := strconv.Atoi(cidrBlock[len(cidrBlock)-2:])
BlockedBits(cidrBlock) == Atoi(SubSeq(cidrBlock, Len(cidrBlock) - 1, Len(cidrBlock)))

RECURSIVE RangeSubnets(_, _)
\* one subnet of the loop, conv being what Atoi returned for it
SubnetStep(subnets, st, conv) ==
  IF conv.err # NoErr
  THEN [st |-> [st EXCEPT !.conversionErr = Wrapf(ErrFailedToConvertCidr, conv.err)],
        ret |-> <<TRUE>>]   \* return true
  ELSE RangeSubnets(Tail(subnets),
         [st EXCEPT !.availabilityInfos = Append(@, AvailabilityInfo(Head(subnets), conv.val))])

\* the loop over page.Subnets: the closure's state after it, and the value
\* the callback returned from inside the loop (Nil when the loop ran out)
RangeSubnets(subnets, st) ==
  IF subnets = <<>> THEN [st |-> st, ret |-> Nil]
  ELSE SubnetStep(subnets, st, BlockedBits(Head(subnets).CidrBlock))

\* ---------------------------------------------------------------- ecr, kinesisanalytics, ses, autoscaling

\* the API's figure as reported
KPUsAsReported(app) == app.CurrentParallelism

\* Usage of the KPU record: the API's figure plus one
KPUs(app) == app.CurrentParallelism + 1

RECURSIVE RangeApps(_, _, _)
\* for _, app := range apps.ApplicationSummaries: DescribeApplication each
RangeApps(apps, quotaUsages, rid) ==
  IF apps = <<>> THEN Ok(quotaUsages)
  ELSE IF Head(apps).describeFails
       THEN Fail(Wrapf(ErrFailedToGetUsage, <<AwsErr("DescribeApplication", rid)>>))
       ELSE RangeApps(Tail(apps),
              Append(quotaUsages,
                     QuotaUsage(kinesisanalyticsNames.flinkKPUsPerAppName, <<Head(apps).ApplicationName>>,
                                kinesisanalyticsNames.flinkKPUsPerAppDescription, KPUs(Head(apps)), 0, Nil)),
              rid)

RECURSIVE AppKPULoop(_, _, _, _)
\* after the apps of page k: stop without a next token, else fetch the next page
AppKPUNext(l, k, rid, r) ==
  IF r.err # NoErr \/ LastPage(l, k) THEN r
  ELSE IF k + 1 > Len(l.pages)
       THEN Fail(Wrapf(ErrFailedToGetUsage, <<AwsErr("ListApplications", rid)>>))
       ELSE AppKPULoop(l, k + 1, r.usages, rid)

\* for repeat != false { ... }: page k of the ListApplications token chain
AppKPULoop(l, k, quotaUsages, rid) ==
  AppKPUNext(l, k, rid, RangeApps(l.pages[k], quotaUsages, rid))

\* func (c *AppKPUUsageCheck) Usage()
AppKPUUsage(l, rid) ==
  IF l.pages = <<>>
  THEN Fail(Wrapf(ErrFailedToGetUsage, <<AwsErr("ListApplications", rid)>>))
  ELSE AppKPULoop(l, 1, <<>>, rid)

\* func (c *MaxSendIn24HoursCheck) Usage()
MaxSendIn24HoursUsage(response, rid) ==
  IF response.fails THEN Fail(Wrapf(ErrFailedToGetUsage, <<AwsErr("GetAccount", rid)>>))
  ELSE Ok(<<QuotaUsage(sesNames.maxSendIn24HoursName, Nil, sesNames.maxSendIn24HoursDescription,
                       response.SentLast24Hours, response.Max24HourSend, Nil)>>)

\* the volume checks: the name and description of the record each returns
VolumeNames ==
  ("MaxGP3StoragePerRegionCheck" :>
     <<ec2Names.maxGp3StoragePerRegionName, ec2Names.maxGp3StoragePerRegionDescription>>) @@
  ("MaxGP2StoragePerRegionCheck" :>
     <<ec2Names.maxGp2StoragePerRegionName, ec2Names.maxGp2StoragePerRegionDescription>>) @@
  ("MaxIo1StoragePerRegionCheck" :>
     <<ec2Names.maxIo1StoragePerRegionName, ec2Names.maxIo1StoragePerRegionDescription>>) @@
  ("MaxIo2StoragePerRegionCheck" :>
     <<ec2Names.maxIo2StoragePerRegionName, ec2Names.maxIo2StoragePerRegionDescription>>) @@
  ("MaxSt1StoragePerRegionCheck" :>
     <<ec2Names.maxSt1StoragePerRegionName, ec2Names.maxSt1StoragePerRegionDescription>>) @@
  ("MaxStandardStoragePerRegionCheck" :>
     <<ec2Names.maxStandardStoragePerRegionName, ec2Names.maxStandardStoragePerRegionDescription>>) @@
  ("MaxSc1StoragePerRegionCheck" :>
     <<ec2Names.maxSc1StoragePerRegionName, ec2Names.maxSc1StoragePerRegionDescription>>) @@
  ("MaxIo2IopsPerRegionCheck" :>
     <<ec2Names.maxIo2IopsPerRegionName, ec2Names.maxIo2IopsPerRegionDescription>>) @@
  ("MaxIo1IopsPerRegionCheck" :>
     <<ec2Names.maxIo1IopsPerRegionName, ec2Names.maxIo1IopsPerRegionDescription>>)

\* the checks that sum the sizes of the volumes of one type
StorageChecks ==
  {"MaxGP3StoragePerRegionCheck", "MaxGP2StoragePerRegionCheck", "MaxIo1StoragePerRegionCheck",
   "MaxIo2StoragePerRegionCheck", "MaxSt1StoragePerRegionCheck",
   "MaxStandardStoragePerRegionCheck", "MaxSc1StoragePerRegionCheck"}

\* the checks that sum the IOPS of the volumes of one type
IopsChecks == {"MaxIo2IopsPerRegionCheck", "MaxIo1IopsPerRegionCheck"}

\* the checks whose page callback adds len(page.Xxx) to a counter, with the
\* name and description of the one record they return
CountNames ==
  ("ENIsPerRegionCheck" :> <<ec2Names.eNIsPerRegionName, ec2Names.eNIsPerRegionDescription>>) @@
  ("LogGroupsPerRegionCheck" :> <<logsNames.logGroupsPerRegionName, logsNames.logGroupsPerRegionDescription>>) @@
  ("EbsSnapshotsPerRegionCheck" :>
     <<ec2Names.ebsSnapshotsPerRegionName, ec2Names.ebsSnapshotsPerRegionDescription>>) @@
  ("UserSnapshotsPerRegionCheck" :>
     <<redshiftNames.userSnapshotsPerRegionName, redshiftNames.userSnapshotsPerRegionDescription>>) @@
  ("JobsPerAccountCheck" :> <<glueNames.jobsName, glueNames.jobsDescription>>)

\* ---------------------------------------------------------------- the other checks' pages

\* the records of a page of network interfaces
ENIPage(page) ==
  [n \in 1..Len(page) |->
     QuotaUsage(ec2Names.secGroupsPerENIName, <<page[n].NetworkInterfaceId>>, ec2Names.secGroupsPerENIDesc,
                Len(page[n].Groups), 0, ec2TagsToQuotaUsageTags(page[n].TagSet))]

\* numvCPUs of an instance, 0 where the loop body skips it
InstanceCPUs(instance, spotInstances) ==
  IF ~spotInstances /\ instance.InstanceLifecycle # Nil THEN 0
  ELSE IF instance.CoreCount # Nil /\ instance.ThreadsPerCore # Nil
       THEN instance.CoreCount[1] * instance.ThreadsPerCore[1]
       ELSE 0

ReservationCPUs(reservation, spotInstances) ==
  SumSeq([n \in 1..Len(reservation.Instances) |->
            InstanceCPUs(reservation.Instances[n], spotInstances)])

\* what a page of reservations adds to totalvCPUs
PageCPUs(page, spotInstances) ==
  SumSeq([n \in 1..Len(page) |-> ReservationCPUs(page[n], spotInstances)])

\* the sizes of a page converted to TiB before they are added up
SumSizesInWholeTiB(page) ==
  (SumSeq([n \in 1..Len(page) |-> page[n].Size]) \div 1024) * 1024

\* totalStorageCount += int(*vol.Size) over a page
SumSizes(page) == SumSeq([n \in 1..Len(page) |-> page[n].Size])

\* totalIopsCount += int(*vol.Iops) over a page
SumIops(page) == SumSeq([n \in 1..Len(page) |-> page[n].Iops])

\* totalStorageCount += int64(*instance.AllocatedStorage) over a page
SumAllocated(page) == SumSeq([n \in 1..Len(page) |-> page[n].AllocatedStorage])

\* readReplicas of a cluster: its members that are not the writer
ReadReplicas(group) ==
  Cardinality({n \in 1..Len(group.DBClusterMembers) : ~group.DBClusterMembers[n]})

\* the records of a page of DB clusters
DBClustersPage(page) ==
  [n \in 1..Len(page) |->
     QuotaUsage(rdsNames.numReadReplicasPerMasterName, <<page[n].DBClusterIdentifier>>,
                rdsNames.numReadReplicasPerMasterDescription, ReadReplicas(page[n]), 0, Nil)]

\* the records of a page of glue jobs
JobsPage(page) ==
  [n \in 1..Len(page) |->
     QuotaUsage(glueNames.concurrentRunsPerJobName, <<page[n].Name>>, glueNames.concurrentRunsPerJobDescription,
                page[n].MaxConcurrentRuns, 0, Nil)]

\* dPUsCount += int(*job.MaxCapacity) over a page, a non-negative float64
\* being <<numerator, denominator>> and int() its truncation
SumCapacity(page) ==
  SumSeq([n \in 1..Len(page) |-> page[n].MaxCapacity[1] \div page[n].MaxCapacity[2]])

\* the runs of a page counted by: run.JobRunState == aws.String(glue.JobRunStateRunning)
\* a *string is the address it points to and the string there; aws.String
\* returns a new address, and == on two *string compares the addresses
RunningRuns(page) ==
  Cardinality({n \in 1..Len(page) :
                 page[n].JobRunState.addr = [addr |-> "new", val |-> "RUNNING"].addr})

\* ---------------------------------------------------------------- paging

\* the page callbacks of the checks, by the listing they are passed to:
\* the closure's state after the page, and whether paging goes on
SubnetReturn(r, lastPage) ==
  [st |-> r.st, cont |-> IF r.ret # Nil THEN r.ret[1] ELSE ~lastPage]

RepositoriesPage(st, repositoryCount) ==
  [repositoryCount |-> repositoryCount,
   quotaUsages |-> Append(st.quotaUsages,
      QuotaUsage(ecrNames.repositoriesPerRegionName, Nil, ecrNames.repositoriesPerRegionDescription,
                 repositoryCount, 0, Nil))]

ASGPage(page) ==
  [n \in 1..Len(page) |->
     QuotaUsage(asgNames.instancesPerASGName, <<page[n].AutoScalingGroupName>>,
                asgNames.instancesPerASGDescription, page[n].Instances, 0,
                ec2TagsToQuotaUsageTags(page[n].Tags))]

Call(fn, page, lastPage, st) ==
  CASE fn = "RulesPerSecurityGroup" ->
         [st |-> [st EXCEPT !.quotaUsages = @ \o RangeGroups(page)], cont |-> ~lastPage]
    [] fn = "SecurityGroupsPerRegion" ->
         [st |-> [st EXCEPT !.numGroups = @ + Len(page)], cont |-> ~lastPage]
    [] fn = "AvailableIpsPerSubnet" -> SubnetReturn(RangeSubnets(page, st), lastPage)
    [] fn = "RepositoriesPerRegion" ->
         [st |-> RepositoriesPage(st, st.repositoryCount + Len(page)), cont |-> ~lastPage]
    [] fn = "ASG" ->
         [st |-> [st EXCEPT !.quotaUsages = @ \o ASGPage(page)], cont |-> ~lastPage]
    [] fn = "SecurityGroupsPerENI" ->
         [st |-> [st EXCEPT !.quotaUsages = @ \o ENIPage(page)], cont |-> ~lastPage]
    [] fn = "standardInstancesCPUs" ->
         [st |-> [st EXCEPT !.totalvCPUs = @ + PageCPUs(page, st.spotInstances)],
          cont |-> ~lastPage]
    [] fn \in StorageChecks ->
         [st |-> [st EXCEPT !.total = @ + SumSizes(page)], cont |-> ~lastPage]
    [] fn \in IopsChecks ->
         [st |-> [st EXCEPT !.total = @ + SumIops(page)], cont |-> ~lastPage]
    [] fn \in DOMAIN CountNames \cup {"ListImages"} ->
         [st |-> [st EXCEPT !.total = @ + Len(page)], cont |-> ~lastPage]
    [] fn = "MaxTotalStorage" ->
         [st |-> [st EXCEPT !.total = @ + SumAllocated(page)], cont |-> ~lastPage]
    [] fn = "ReadReplicasPerMaster" ->
         [st |-> [st EXCEPT !.quotaUsages = @ \o DBClustersPage(page)], cont |-> ~lastPage]
    [] fn = "ConcurrentRunsPerJob" ->
         [st |-> [st EXCEPT !.quotaUsages = @ \o JobsPage(page)], cont |-> ~lastPage]
    [] fn = "DPUs" ->
         [st |-> [st EXCEPT !.total = @ + SumCapacity(page)], cont |-> ~lastPage]
    [] fn \in {"ListTriggers", "DescribeRepositories"} ->
         [st |-> [st EXCEPT !.names = @ \o page], cont |-> ~lastPage]
    [] fn = "GetJobRuns" ->
         [st |-> [st EXCEPT !.concurrentJobsCount = @ + RunningRuns(page)],
          cont |-> ~lastPage]

RECURSIVE PagesFrom(_, _, _, _, _)
\* after the callback returned r for page k: the next page, or break
PagesNext(fn, l, k, rid, r) ==
  IF r.cont THEN PagesFrom(fn, l, k + 1, r.st, rid) ELSE [st |-> r.st, err |-> NoErr]

\* the SDK's XxxPages(params, fn):
\*   for p.Next() { if !fn(p.Page(), !p.HasNextPage()) { break } }; return p.Err()
\* st is the state of the variables the closure fn captures
PagesFrom(fn, l, k, st, rid) ==
  IF k > Len(l.pages)
  THEN [st |-> st, err |-> IF l.fails THEN <<AwsErr(fn, rid)>> ELSE NoErr]
  ELSE PagesNext(fn, l, k, rid, Call(fn, l.pages[k], LastPage(l, k), st))

Pages(fn, l, st, rid) == PagesFrom(fn, l, 1, st, rid)

\* if err != nil { return nil, errors.Wrapf(ErrFailedToGetUsage, "%w", err) }
\* return quotaUsages, nil
UsagesOrErr(r) ==
  IF r.err # NoErr THEN Fail(Wrapf(ErrFailedToGetUsage, r.err)) ELSE Ok(r.st.quotaUsages)

\* func (c *RulesPerSecurityGroupUsageCheck) Usage()
RulesPerSecurityGroupUsage(l, rid) ==
  UsagesOrErr(Pages("RulesPerSecurityGroup", l, [quotaUsages |-> <<>>], rid))

SecurityGroupsPerRegionResult(r) ==
  IF r.err # NoErr THEN Fail(Wrapf(ErrFailedToGetUsage, r.err))
  ELSE Ok(<<QuotaUsage(ec2Names.securityGroupsPerRegionName, Nil, ec2Names.securityGroupsPerRegionDesc,
                       r.st.numGroups, 0, Nil)>>)

\* func (c *SecurityGroupsPerRegionUsageCheck) Usage()
SecurityGroupsPerRegionUsage(l, rid) ==
  SecurityGroupsPerRegionResult(Pages("SecurityGroupsPerRegion", l, [numGroups |-> 0], rid))

AvailableIpsPerSubnetResult(r) ==
  IF r.err # NoErr THEN Fail(Wrapf(ErrFailedToGetUsage, r.err))
  ELSE IF r.st.conversionErr # NoErr THEN Fail(r.st.conversionErr)
  ELSE Ok(r.st.availabilityInfos)

\* func (c *AvailableIpsPerSubnetUsageCheck) Usage()
AvailableIpsPerSubnetUsage(l, rid) ==
  AvailableIpsPerSubnetResult(
    Pages("AvailableIpsPerSubnet", l, [availabilityInfos |-> <<>>, conversionErr |-> NoErr], rid))

\* func (c *RepositoriesPerRegionCheck) Usage(): the callback appends a
\* record with the running count on every page
RepositoriesPerRegionUsage(l, rid) ==
  UsagesOrErr(Pages("RepositoriesPerRegion", l, [quotaUsages |-> <<>>, repositoryCount |-> 0], rid))

\* ASGUsageCheck: a per-resource fan-out over the autoscaling groups, one
\* record per group with the number of its instances
ASGUsage(l, rid) == UsagesOrErr(Pages("ASG", l, [quotaUsages |-> <<>>], rid))

\* func (c *SecurityGroupsPerENIUsageCheck) Usage()
SecurityGroupsPerENIUsage(l, rid) ==
  UsagesOrErr(Pages("SecurityGroupsPerENI", l, [quotaUsages |-> <<>>], rid))

\* the one record with the figure stored as Quota as well
OneRecordWithQuota(names, r, usage) ==
  IF r.err # NoErr THEN Fail(Wrapf(ErrFailedToGetUsage, r.err))
  ELSE Ok(<<QuotaUsage(names[1], Nil, names[2], usage, usage, Nil)>>)

\* a check that returns one record without a resource: its listing
\* returned r and usage is the figure computed from the closure's state
OneRecord(names, r, usage) ==
  IF r.err # NoErr THEN Fail(Wrapf(ErrFailedToGetUsage, r.err))
  ELSE Ok(<<QuotaUsage(names[1], Nil, names[2], usage, 0, Nil)>>)

\* standardInstancesCPUs(ec2Service, spotInstances) and the Usage() around it
InstancesResult(names, r) ==
  IF r.err # NoErr THEN Fail(Wrapf(ErrFailedToGetUsage, r.err))
  ELSE Ok(<<QuotaUsage(names[1], Nil, names[2], r.st.totalvCPUs, 0, Nil)>>)

standardInstancesCPUs(l, spotInstances, rid) ==
  Pages("standardInstancesCPUs", l, [totalvCPUs |-> 0, spotInstances |-> spotInstances], rid)

\* func (c *StandardSpotInstanceRequestsUsageCheck) Usage()
StandardSpotInstanceRequestsUsage(l, rid) ==
  InstancesResult(<<ec2Names.spotInstanceRequestsName, ec2Names.spotInstanceRequestsDesc>>,
                  standardInstancesCPUs(l, TRUE, rid))

\* func (c *RunningOnDemandStandardInstancesUsageCheck) Usage()
RunningOnDemandStandardInstancesUsage(l, rid) ==
  InstancesResult(<<ec2Names.onDemandInstanceRequestsName, ec2Names.onDemandInstanceRequestsDesc>>,
                  standardInstancesCPUs(l, FALSE, rid))

\* Usage: float64(totalStorageCount / 1024), the division being the integer one
StorageResult(names, r) == OneRecord(names, r, r.st.total \div 1024)

\* func (c *MaxGP2StoragePerRegionCheck) Usage() and the six like it
MaxStoragePerRegionUsage(check, l, rid) ==
  StorageResult(VolumeNames[check], Pages(check, l, [total |-> 0], rid))

SumResult(names, r) == OneRecord(names, r, r.st.total)

\* func (c *MaxIo2IopsPerRegionCheck) Usage(), func (c *MaxIo1IopsPerRegionCheck) Usage()
MaxIopsPerRegionUsage(check, l, rid) ==
  SumResult(VolumeNames[check], Pages(check, l, [total |-> 0], rid))

\* the Usage() of ENIsPerRegionCheck, LogGroupsPerRegionCheck,
\* EbsSnapshotsPerRegionCheck, UserSnapshotsPerRegionCheck, JobsPerAccountCheck
CountUsage(check, l, rid) ==
  SumResult(CountNames[check], Pages(check, l, [total |-> 0], rid))

\* func (c *MaxTotalStorageCheck) Usage()
MaxTotalStorageUsage(l, rid) ==
  SumResult(<<rdsNames.MaxTotalStorageCheckName, rdsNames.MaxTotalStorageCheckDescription>>,
            Pages("MaxTotalStorage", l, [total |-> 0], rid))

\* func (c *ReadReplicasPerMasterCheck) Usage()
ReadReplicasPerMasterUsage(l, rid) ==
  UsagesOrErr(Pages("ReadReplicasPerMaster", l, [quotaUsages |-> <<>>], rid))

\* func (c *ConcurrentRunsPerJobCheck) Usage()
ConcurrentRunsPerJobUsage(l, rid) ==
  UsagesOrErr(Pages("ConcurrentRunsPerJob", l, [quotaUsages |-> <<>>], rid))

\* func (c *DPUsCheck) Usage()
DPUsUsage(l, rid) ==
  SumResult(<<glueNames.dPUsName, glueNames.dPUsDescription>>, Pages("DPUs", l, [total |-> 0], rid))

\* the loop left after the page at hand, whether or not it has a next token
AppsPerRegionLoopOnce(l, k, totalAppsCount, rid) ==
  Ok(<<QuotaUsage(kinesisanalyticsNames.appsPerRegionName, Nil, kinesisanalyticsNames.appsPerRegionDescription,
                  totalAppsCount + Len(l.pages[k]), 0, Nil)>>)

RECURSIVE AppsPerRegionLoop(_, _, _, _)
\* for repeat != false { ... } of AppsPerRegionCheck: page k of the token chain
AppsPerRegionLoop(l, k, totalAppsCount, rid) ==
  IF LastPage(l, k)
  THEN Ok(<<QuotaUsage(kinesisanalyticsNames.appsPerRegionName, Nil, kinesisanalyticsNames.appsPerRegionDescription,
                       totalAppsCount + Len(l.pages[k]), 0, Nil)>>)
  ELSE IF k + 1 > Len(l.pages)
       THEN Fail(Wrapf(ErrFailedToGetUsage, <<AwsErr("ListApplications", rid)>>))
       ELSE AppsPerRegionLoop(l, k + 1, totalAppsCount + Len(l.pages[k]), rid)

\* func (c *AppsPerRegionCheck) Usage()
AppsPerRegionUsage(l, rid) ==
  IF l.pages = <<>>
  THEN Fail(Wrapf(ErrFailedToGetUsage, <<AwsErr("ListApplications", rid)>>))
  ELSE AppsPerRegionLoop(l, 1, 0, rid)

RECURSIVE RangeRepositories(_, _, _, _)
\* ListImagesPages for the first of repos returned r
ImagesListed(repos, images, quotaUsages, rid, r) ==
  IF r.err # NoErr THEN Fail(Wrapf(ErrFailedToGetUsage, r.err))
  ELSE RangeRepositories(Tail(repos), images,
         Append(quotaUsages,
                QuotaUsage(ecrNames.imagesPerRepositoryName, <<Head(repos)>>,
                           ecrNames.imagesPerRepositoryDescription, r.st.total, 0, Nil)),
         rid)

\* for _, repo := range listOfRepositories: images[repo] is the provider's
\* listing of the images of repo
RangeRepositories(repos, images, quotaUsages, rid) ==
  IF repos = <<>> THEN Ok(quotaUsages)
  ELSE ImagesListed(repos, images, quotaUsages, rid,
                    Pages("ListImages", images[Head(repos)], [total |-> 0], rid))

RepositoriesListed(in, rid, r) ==
  IF r.err # NoErr THEN Fail(Wrapf(ErrFailedToGetUsage, r.err))
  ELSE RangeRepositories(r.st.names, in.images, <<>>, rid)

\* func (c *ImagesPerRepositoryCheck) Usage()
ImagesPerRepositoryUsage(in, rid) ==
  RepositoriesListed(in, rid, Pages("DescribeRepositories", in, [names |-> <<>>], rid))

\* jobsTriggered of a trigger: its actions that name a job
JobsTriggered(trigger) ==
  Cardinality({n \in 1..Len(trigger.Actions) : trigger.Actions[n].JobName # ""})

\* for _, trigger := range triggers.Triggers
RangeTriggers(triggers) ==
  [n \in 1..Len(triggers) |->
     QuotaUsage(glueNames.jobsPerTriggerName, <<triggers[n].Name>>, glueNames.jobsPerTriggerDescription,
                JobsTriggered(triggers[n]), 0, Nil)]

\* triggers, err := c.client.BatchGetTriggers(params): on err the check
\* wraps listErr, which is nil there
BatchGot(batch, listErr) ==
  IF batch.fails THEN Fail(Wrapf(ErrFailedToGetUsage, listErr))
  ELSE Ok(RangeTriggers(batch.Triggers))

TriggersListed(in, r) ==
  IF r.err # NoErr THEN Fail(Wrapf(ErrFailedToGetUsage, r.err))
  ELSE BatchGot(in.batch, r.err)

\* func (c *JobsPerTriggerCheck) Usage()
JobsPerTriggerUsage(in, rid) ==
  TriggersListed(in, Pages("ListTriggers", in, [names |-> <<>>], rid))

\* a call that did not return: panic(err)
Panic(err) == [usages |-> Nil, err |-> NoErr, panic |-> err]

RECURSIVE RangeJobNames(_, _, _, _)
\* GetJobRunsPages for the first of jobs returned r: if err != nil { panic(err) }
JobRunsListed(jobs, runs, rid, r) ==
  IF r.err # NoErr THEN [st |-> r.st, panic |-> r.err]
  ELSE RangeJobNames(Tail(jobs), runs, r.st, rid)

\* for _, job := range page.JobNames in the callback of ConcurrentRunsCheck:
\* runs[job] is the provider's listing of the runs of job
RangeJobNames(jobs, runs, st, rid) ==
  IF jobs = <<>> THEN [st |-> st, panic |-> NoErr]
  ELSE JobRunsListed(jobs, runs, rid, Pages("GetJobRuns", runs[Head(jobs)], st, rid))

RECURSIVE ConcurrentRunsPagesFrom(_, _, _, _)
\* after the callback of page k: it returns !lastPage unless it panicked
ConcurrentRunsNext(in, k, rid, r) ==
  IF r.panic # NoErr THEN [st |-> r.st, err |-> NoErr, panic |-> r.panic]
  ELSE ConcurrentRunsPagesFrom(in, k + 1, r.st, rid)

\* ListJobsPages(listParams, fn) of ConcurrentRunsCheck, from page k
ConcurrentRunsPagesFrom(in, k, st, rid) ==
  IF k > Len(in.pages)
  THEN [st |-> st, err |-> IF in.fails THEN <<AwsErr("ListJobs", rid)>> ELSE NoErr,
        panic |-> NoErr]
  ELSE ConcurrentRunsNext(in, k, rid, RangeJobNames(in.pages[k], in.runs, st, rid))

ConcurrentRunsResult(r) ==
  IF r.panic # NoErr THEN Panic(r.panic)
  ELSE IF r.err # NoErr THEN Fail(Wrapf(ErrFailedToGetUsage, r.err))
  ELSE Ok(<<QuotaUsage(glueNames.concurrentRunsName, Nil, glueNames.concurrentRunsDescription,
                       r.st.concurrentJobsCount, 0, Nil)>>)

\* func (c *ConcurrentRunsCheck) Usage()
ConcurrentRunsUsage(in, rid) ==
  ConcurrentRunsResult(ConcurrentRunsPagesFrom(in, 1, [concurrentJobsCount |-> 0], rid))

\* check.Usage() of the registered check, against the provider's answer
Usage(check, in, rid) ==
  CASE check = "RulesPerSecurityGroupUsageCheck" -> RulesPerSecurityGroupUsage(in, rid)
    [] check = "SecurityGroupsPerENIUsageCheck" -> SecurityGroupsPerENIUsage(in, rid)
    [] check = "SecurityGroupsPerRegionUsageCheck" -> SecurityGroupsPerRegionUsage(in, rid)
    [] check = "StandardSpotInstanceRequestsUsageCheck" ->
         StandardSpotInstanceRequestsUsage(in, rid)
    [] check = "RunningOnDemandStandardInstancesUsageCheck" ->
         RunningOnDemandStandardInstancesUsage(in, rid)
    [] check = "AvailableIpsPerSubnetUsageCheck" -> AvailableIpsPerSubnetUsage(in, rid)
    [] check \in StorageChecks -> MaxStoragePerRegionUsage(check, in, rid)
    [] check \in IopsChecks -> MaxIopsPerRegionUsage(check, in, rid)
    [] check \in DOMAIN CountNames -> CountUsage(check, in, rid)
    [] check = "MaxTotalStorageCheck" -> MaxTotalStorageUsage(in, rid)
    [] check = "ReadReplicasPerMasterCheck" -> ReadReplicasPerMasterUsage(in, rid)
    [] check = "RepositoriesPerRegionCheck" -> RepositoriesPerRegionUsage(in, rid)
    [] check = "ImagesPerRepositoryCheck" -> ImagesPerRepositoryUsage(in, rid)
    [] check = "AppKPUUsageCheck" -> AppKPUUsage(in, rid)
    [] check = "AppsPerRegionCheck" -> AppsPerRegionUsage(in, rid)
    [] check = "JobsPerTriggerCheck" -> JobsPerTriggerUsage(in, rid)
    [] check = "ConcurrentRunsPerJobCheck" -> ConcurrentRunsPerJobUsage(in, rid)
    [] check = "DPUsCheck" -> DPUsUsage(in, rid)
    [] check = "ConcurrentRunsCheck" -> ConcurrentRunsUsage(in, rid)
    [] check = "MaxSendIn24HoursCheck" -> MaxSendIn24HoursUsage(in, rid)
    [] check = "ASGUsageCheck" -> ASGUsage(in, rid)

\* ---------------------------------------------------------------- service_quotas.go

allServices ==
  <<"ec2", "vpc", "rds", "ecr", "ecs", "logs", "kinesisanalytics", "redshift", "ebs", "glue">>

\* the services one refresh of the model walks
Services == SubSeq(allServices, 1, NumServices)

\* newUsageChecks: quota code -> the check registered for it
serviceQuotasUsageChecks ==
  ("L-0EA8095F" :> "RulesPerSecurityGroupUsageCheck") @@
  ("L-2AFB9258" :> "SecurityGroupsPerENIUsageCheck") @@
  ("L-E79EC296" :> "SecurityGroupsPerRegionUsageCheck") @@
  ("L-34B43A08" :> "StandardSpotInstanceRequestsUsageCheck") @@
  ("L-1216C47A" :> "RunningOnDemandStandardInstancesUsageCheck") @@
  ("L-5BC124EF" :> "ReadReplicasPerMasterCheck") @@
  ("L-DF5E4CA3" :> "ENIsPerRegionCheck") @@
  ("L-C7B9AAAB" :> "LogGroupsPerRegionCheck") @@
  ("L-7A658B76" :> "MaxGP3StoragePerRegionCheck") @@
  ("L-D18FCD1D" :> "MaxGP2StoragePerRegionCheck") @@
  ("L-FD252861" :> "MaxIo1StoragePerRegionCheck") @@
  ("L-09BD8365" :> "MaxIo2StoragePerRegionCheck") @@
  ("L-82ACEF56" :> "MaxSt1StoragePerRegionCheck") @@
  ("L-9CF3C2EB" :> "MaxStandardStoragePerRegionCheck") @@
  ("L-17AF77E8" :> "MaxSc1StoragePerRegionCheck") @@
  ("L-309BACF6" :> "EbsSnapshotsPerRegionCheck") @@
  ("L-8D977E7E" :> "MaxIo2IopsPerRegionCheck") @@
  ("L-B3A130E6" :> "MaxIo1IopsPerRegionCheck") @@
  ("L-EEC98450" :> "JobsPerTriggerCheck") @@
  ("L-611FDDE4" :> "JobsPerAccountCheck") @@
  ("L-F574AED9" :> "ConcurrentRunsPerJobCheck") @@
  ("L-08F3B322" :> "DPUsCheck") @@
  ("L-5E4153CA" :> "ConcurrentRunsCheck")

serviceDefaultUsageChecks ==
  ("L-CFEB8E8D" :> "RepositoriesPerRegionCheck") @@
  ("L-03A36CE1" :> "ImagesPerRepositoryCheck") @@
  ("L-3A88E041" :> "AppKPUUsageCheck") @@
  ("L-3729A2EF" :> "AppsPerRegionCheck") @@
  ("L-2E428669" :> "UserSnapshotsPerRegionCheck")

otherUsageChecks ==
  <<"AvailableIpsPerSubnetUsageCheck", "ASGUsageCheck", "MaxSendIn24HoursCheck">>

\* endpoints.DefaultPartitions(): the partition ids and some of their regions
AwsCnPartitionID == "aws-cn"
DefaultPartitions ==
  <<[ID |-> "aws", Regions |-> {"eu-west-1", "us-east-1"}],
    [ID |-> AwsCnPartitionID, Regions |-> {"cn-north-1", "cn-northwest-1"}],
    [ID |-> "aws-us-gov", Regions |-> {"us-gov-west-1"}]>>

\* isValidRegion: (the region is in some partition, that partition is aws-cn)
isValidRegion(region) ==
  IF \E n \in 1..Len(DefaultPartitions) : region \in DefaultPartitions[n].Regions
  THEN LET n == CHOOSE m \in 1..Len(DefaultPartitions) :
                  /\ region \in DefaultPartitions[m].Regions
                  /\ \A j \in 1..(m - 1) : region \notin DefaultPartitions[j].Regions
       IN <<TRUE, DefaultPartitions[n].ID = AwsCnPartitionID>>
  ELSE <<FALSE, FALSE>>

\* a request the refresh made, in the order made (the log): a catalog page
\* delivered (r holds its entries), a catalog listing failed, a Usage() call
\* with what it returned
Event(op, api, service, code, r) ==
  [op |-> op, api |-> api, service |-> service, code |-> code, err |-> r.err,
   usages |-> r.usages]

\* the assignment lost: the record is appended as the check returned it
SetQuotaLost(quotaUsage, quota) == quotaUsage

\* quotaUsage.Quota = *quota.Value (the loop variable is a copy of the record)
SetQuota(quotaUsage, quota) == [quotaUsage EXCEPT !.Quota = quota.Value]

\* the limit written over the usage figure as well
MergeQuotaOverUsage(quotaUsages, quota) ==
  [n \in 1..Len(quotaUsages) |->
     [SetQuota(quotaUsages[n], quota) EXCEPT !.Usage = quota.Value]]

\* for _, quotaUsage := range quotaUsages { ...; append(serviceQuotaUsages, quotaUsage) }
MergeQuota(quotaUsages, quota) ==
  [n \in 1..Len(quotaUsages) |-> SetQuota(quotaUsages[n], quota)]

\* the log after the Usage() call made for entry quota returned r
Logged(st, check, quota, r) ==
  Append(st.events, Event("usage", check, st.service, quota.QuotaCode, r))

RECURSIVE RangeQuotas(_, _, _, _, _)
\* errReturn is what the page callback returns when a check fails: both
\* walks pass true
\* the i-th entry has a check and check.Usage() returned r
QuotaChecked(checks, errReturn, quotas, i, st, r) ==
  IF r.err # NoErr
  THEN [st |-> [st EXCEPT !.usageErr = r.err,
                          !.events = Logged(st, checks[quotas[i].QuotaCode], quotas[i], r)],
        ret |-> <<errReturn>>]
  ELSE RangeQuotas(checks, errReturn, quotas, i + 1,
         [st EXCEPT !.usages = @ \o MergeQuota(r.usages, quotas[i]),
                    !.events = Logged(st, checks[quotas[i].QuotaCode], quotas[i], r)])

\* the loop with an entry left out when the entry before it has its code
RangeQuotasOncePerCode(checks, errReturn, quotas, i, st) ==
  IF i > Len(quotas) THEN [st |-> st, ret |-> Nil]
  ELSE IF /\ quotas[i].QuotaCode \in DOMAIN checks
          /\ ~(i > 1 /\ quotas[i - 1].QuotaCode = quotas[i].QuotaCode)
       THEN QuotaChecked(checks, errReturn, quotas, i, st,
              Usage(checks[quotas[i].QuotaCode], st.ins[st.page][i], Len(st.events) + 1))
       ELSE RangeQuotas(checks, errReturn, quotas, i + 1, st)

\* for _, quota := range page.Quotas of a catalog page callback: checks is
\* the registry view of the walk, st the closure's state (usages, usageErr)
\* with the log and the provider's answers ins[page][i] to the Usage() call
\* made for the i-th entry of the page
RangeQuotas(checks, errReturn, quotas, i, st) ==
  IF i > Len(quotas) THEN [st |-> st, ret |-> Nil]
  ELSE IF quotas[i].QuotaCode \in DOMAIN checks
       THEN QuotaChecked(checks, errReturn, quotas, i, st,
              Usage(checks[quotas[i].QuotaCode], st.ins[st.page][i], Len(st.events) + 1))
       ELSE RangeQuotas(checks, errReturn, quotas, i + 1, st)

\* the callback's return value: the one of the loop, else !lastPage
CatalogReturn(r, lastPage) ==
  [st |-> r.st, cont |-> IF r.ret # Nil THEN r.ret[1] ELSE ~lastPage]

\* a catalog page callback: the page is logged, its quotas are ranged over
CatalogCallback(fn, checks, errReturn, page, lastPage, st) ==
  CatalogReturn(
    RangeQuotas(checks, errReturn, page, 1,
      [st EXCEPT !.page = @ + 1,
                 !.events = Append(@, Event("page", fn, st.service, "", Ok(page)))]),
    lastPage)

RECURSIVE CatalogPagesFrom(_, _, _, _, _, _, _)
CatalogPagesNext(fn, checks, errReturn, l, k, rid, r) ==
  IF r.cont THEN CatalogPagesFrom(fn, checks, errReturn, l, k + 1, r.st, rid)
  ELSE [st |-> r.st, err |-> NoErr]

\* ListServiceQuotasPages / ListAWSDefaultServiceQuotasPages(params, fn): the
\* SDK's paging loop around the catalog page callback
CatalogPagesFrom(fn, checks, errReturn, l, k, st, rid) ==
  IF k > Len(l.pages)
  THEN [st |-> st, err |-> IF l.fails THEN <<AwsErr(fn, rid)>> ELSE NoErr]
  ELSE CatalogPagesNext(fn, checks, errReturn, l, k, rid,
         CatalogCallback(fn, checks, errReturn, l.pages[k], LastPage(l, k), st))

\* the closure state a catalog walk starts with
WalkState(service, ins, events) ==
  [usages |-> <<>>, usageErr |-> NoErr, page |-> 0, service |-> service,
   ins |-> ins, events |-> events]

\* the log after the listing failed with err
ListFailed(r, fn, err) ==
  Append(r.st.events, Event("listfail", fn, r.st.service, "", Fail(err)))

\* the return without the test of usageErr
quotasForServiceReturnUnchecked(r) ==
  IF r.err # NoErr
  THEN [usages |-> Nil, err |-> Wrapf(ErrFailedToListQuotas, r.err),
        events |-> Append(r.st.events,
                          Event("listfail", "ListServiceQuotasPages", r.st.service, "",
                                Fail(Wrapf(ErrFailedToListQuotas, r.err))))]
  ELSE [usages |-> r.st.usages, err |-> NoErr, events |-> r.st.events]

\* quotasForService after ListServiceQuotasPages returned: err, then usageErr
quotasForServiceReturn(r) ==
  IF r.err # NoErr
  THEN [usages |-> Nil, err |-> Wrapf(ErrFailedToListQuotas, r.err),
        events |-> ListFailed(r, "ListServiceQuotasPages", Wrapf(ErrFailedToListQuotas, r.err))]
  ELSE IF r.st.usageErr # NoErr
  THEN [usages |-> Nil, err |-> r.st.usageErr, events |-> r.st.events]
  ELSE [usages |-> r.st.usages, err |-> NoErr, events |-> r.st.events]

\* func (s *ServiceQuotas) quotasForService(service): (usages, err), and the log
quotasForService(service, l, ins, events) ==
  quotasForServiceReturn(
    CatalogPagesFrom("ListServiceQuotasPages", serviceQuotasUsageChecks, TRUE, l, 1,
                     WalkState(service, ins, events), Len(events) + 1))

\* the return with the two tests exchanged: defaultUsageErr, then err
defaultsForServiceReturnUsageErrFirst(r) ==
  IF r.st.usageErr # NoErr
  THEN [usages |-> Nil, err |-> r.st.usageErr,
        events |-> IF r.err = NoErr THEN r.st.events
                   ELSE Append(r.st.events,
                               Event("listfail", "ListAWSDefaultServiceQuotasPages",
                                     r.st.service, "",
                                     Fail(Wrapf(ErrFailedToListQuotas, r.err))))]
  ELSE IF r.err # NoErr
  THEN [usages |-> Nil, err |-> Wrapf(ErrFailedToListQuotas, r.err),
        events |-> Append(r.st.events,
                          Event("listfail", "ListAWSDefaultServiceQuotasPages", r.st.service,
                                "", Fail(Wrapf(ErrFailedToListQuotas, r.err))))]
  ELSE [usages |-> r.st.usages, err |-> NoErr, events |-> r.st.events]

\* defaultsForService after ListAWSDefaultServiceQuotasPages returned
defaultsForServiceReturn(r) ==
  IF r.err # NoErr
  THEN [usages |-> Nil, err |-> Wrapf(ErrFailedToListQuotas, r.err),
        events |-> ListFailed(r, "ListAWSDefaultServiceQuotasPages",
                              Wrapf(ErrFailedToListQuotas, r.err))]
  ELSE IF r.st.usageErr # NoErr
  THEN [usages |-> Nil, err |-> r.st.usageErr, events |-> r.st.events]
  ELSE [usages |-> r.st.usages, err |-> NoErr, events |-> r.st.events]

\* func (s *ServiceQuotas) defaultsForService(service)
defaultsForService(service, l, ins, events) ==
  defaultsForServiceReturn(
    CatalogPagesFrom("ListAWSDefaultServiceQuotasPages", serviceDefaultUsageChecks,
                     TRUE, l, 1, WalkState(service, ins, events), Len(events) + 1))

\* ---------------------------------------------------------------- the provider

\* quota codes the catalogs list: two with a service-specific check, one
\* with a default check; each walk meets codes that are not in its view
CatalogCodes == {"L-0EA8095F", "L-E79EC296", "L-CFEB8E8D"}
\* the limit the catalog reports for a code
QuotaValue(code) ==
  CASE code = "L-0EA8095F" -> 60
    [] code = "L-E79EC296" -> 2500
    [] code = "L-CFEB8E8D" -> 10000
Quotas == {[QuotaCode |-> code, Value |-> QuotaValue(code)] : code \in CatalogCodes}

\* a subnet of 10.0.0.0 with the given text after the '/'
Subnet(id, suffix, available) ==
  [SubnetId |-> id, CidrBlock |-> <<"1", "0", ".", "0", ".", "0", ".", "0", "/">> \o suffix,
   AvailableIpAddressCount |-> available, Tags |-> <<>>]

\* the resources the provider may list for a check. Subnets: two-digit
\* prefix lengths, a one-digit prefix length, a block that is not in CIDR
\* form, and a /28 block reported with more addresses available than it
\* holds. Reservations: all spot where the check filters on the lifecycle.
\* Volumes: of the type the check filters on, sizes in GiB. Glue jobs:
\* MaxCapacity 2.5 and 10 DPUs.
Items(check) ==
  CASE check \in {"RulesPerSecurityGroupUsageCheck", "SecurityGroupsPerRegionUsageCheck"} ->
         {[GroupId |-> "sg-1", Tags |-> <<>>,
           IpPermissions |-> <<[IpRanges |-> 2, UserIdGroupPairs |-> 1]>>,
           IpPermissionsEgress |-> <<[IpRanges |-> 1, UserIdGroupPairs |-> 1]>>],
          [GroupId |-> "sg-2", Tags |-> <<[Key |-> <<"N", "a", "m", "e">>, Value |-> "web"]>>,
           IpPermissions |-> <<>>,
           IpPermissionsEgress |-> <<[IpRanges |-> 1, UserIdGroupPairs |-> 0],
                                     [IpRanges |-> 0, UserIdGroupPairs |-> 2]>>]}
    [] check \in {"SecurityGroupsPerENIUsageCheck", "ENIsPerRegionCheck"} ->
         {[NetworkInterfaceId |-> "eni-1", Groups |-> <<"sg-1", "sg-2">>, TagSet |-> <<>>],
          [NetworkInterfaceId |-> "eni-2", Groups |-> <<>>,
           TagSet |-> <<[Key |-> <<"N", "a", "m", "e">>, Value |-> "web"]>>]}
    [] check = "StandardSpotInstanceRequestsUsageCheck" ->
         {[Instances |-> <<[InstanceLifecycle |-> <<"spot">>, CoreCount |-> <<4>>,
                            ThreadsPerCore |-> <<1>>]>>]}
    [] check = "RunningOnDemandStandardInstancesUsageCheck" ->
         {[Instances |-> <<[InstanceLifecycle |-> Nil, CoreCount |-> <<2>>,
                            ThreadsPerCore |-> <<2>>]>>],
          [Instances |-> <<[InstanceLifecycle |-> <<"spot">>, CoreCount |-> <<4>>,
                            ThreadsPerCore |-> <<1>>],
                           [InstanceLifecycle |-> Nil, CoreCount |-> Nil,
                            ThreadsPerCore |-> Nil]>>]}
    [] check = "AvailableIpsPerSubnetUsageCheck" ->
         {Subnet("subnet-a", <<"2", "4">>, 200), Subnet("subnet-b", <<"2", "8">>, 11),
          Subnet("subnet-c", <<"1", "6">>, 0), Subnet("subnet-d", <<"8">>, 1000),
          Subnet("subnet-e", <<"2", "x">>, 0), Subnet("subnet-f", <<"2", "8">>, 200)}
    [] check \in StorageChecks \cup IopsChecks ->
         {[Size |-> 600, Iops |-> 3000], [Size |-> 1024, Iops |-> 100]}
    [] check = "EbsSnapshotsPerRegionCheck" -> {"snap-1"}
    [] check = "LogGroupsPerRegionCheck" -> {"log-group-1"}
    [] check = "UserSnapshotsPerRegionCheck" -> {"snapshot-1"}
    [] check = "MaxTotalStorageCheck" -> {[AllocatedStorage |-> 100], [AllocatedStorage |-> 20]}
    [] check = "ReadReplicasPerMasterCheck" ->
         {[DBClusterIdentifier |-> "db-1", DBClusterMembers |-> <<TRUE, FALSE, FALSE>>],
          [DBClusterIdentifier |-> "db-2", DBClusterMembers |-> <<TRUE>>]}
    [] check \in {"RepositoriesPerRegionCheck", "ImagesPerRepositoryCheck"} ->
         {"repo-a", "repo-b"}
    [] check \in {"AppKPUUsageCheck", "AppsPerRegionCheck"} ->
         {[ApplicationName |-> "app-1", CurrentParallelism |-> 1, describeFails |-> FALSE],
          [ApplicationName |-> "app-2", CurrentParallelism |-> 4, describeFails |-> FALSE],
          [ApplicationName |-> "app-3", CurrentParallelism |-> 1, describeFails |-> TRUE]}
    [] check \in {"JobsPerAccountCheck", "ConcurrentRunsCheck"} -> {"job-a", "job-b"}
    [] check \in {"ConcurrentRunsPerJobCheck", "DPUsCheck"} ->
         {[Name |-> "job-a", MaxConcurrentRuns |-> 3, MaxCapacity |-> <<5, 2>>],
          [Name |-> "job-b", MaxConcurrentRuns |-> 1, MaxCapacity |-> <<10, 1>>]}
    [] check = "JobsPerTriggerCheck" -> {"trigger-a"}
    [] check = "ASGUsageCheck" ->
         {[AutoScalingGroupName |-> "asg-1", Instances |-> 3, Tags |-> <<>>]}

\* the names a listing delivers
Names(l) == {Flatten(l.pages)[n] : n \in 1..Len(Flatten(l.pages))}

RECURSIVE Held(_, _)
\* the resources the listings f[name] hold together
Held(f, names) ==
  IF names = {} THEN 0
  ELSE Len(Flatten(f[CHOOSE x \in names : TRUE].pages))
         + Held(f, names \ {CHOOSE x \in names : TRUE})

\* a listing of resources of Inner for each of names, n resources over all
Nested(names, Inner, maxPages, n) ==
  {f \in [names -> Listings(Inner, maxPages, n)] : Held(f, names) <= n}

\* the provider's answers to one Usage() call: the listing the check pages
\* through and what the requests the check makes after it are answered
\* with, at most maxPages pages a listing and maxTotal resources over all
Answers(check, maxPages, maxTotal) ==
  CASE check = "MaxSendIn24HoursCheck" ->   \* what GetAccount answers
         {[fails |-> TRUE, SentLast24Hours |-> 0, Max24HourSend |-> 0],
          [fails |-> FALSE, SentLast24Hours |-> 120, Max24HourSend |-> 50000]}
    [] check = "ImagesPerRepositoryCheck" ->
         UNION {{[pages |-> l.pages, fails |-> l.fails, images |-> f] :
                   f \in Nested(Names(l), {"image-1"}, maxPages,
                                maxTotal - Len(Flatten(l.pages)))}
                : l \in Listings(Items(check), maxPages, maxTotal)}
    [] check = "ConcurrentRunsCheck" ->
         UNION {{[pages |-> l.pages, fails |-> l.fails, runs |-> f] :
                   f \in Nested(Names(l),   \* the runs of a job
                                {[JobRunState |-> [addr |-> "run-1", val |-> "RUNNING"]],
                                 [JobRunState |-> [addr |-> "run-2", val |-> "SUCCEEDED"]]},
                                maxPages,
                                maxTotal - Len(Flatten(l.pages)))}
                : l \in Listings(Items(check), maxPages, maxTotal)}
    [] check = "JobsPerTriggerCheck" ->
         {[pages |-> l.pages, fails |-> l.fails, batch |-> b] :
            l \in Listings(Items(check), maxPages, maxTotal),
            b \in   \* what BatchGetTriggers answers
              {[fails |-> TRUE, Triggers |-> <<>>],
               [fails |-> FALSE, Triggers |-> <<>>],
               [fails |-> FALSE,
                Triggers |-> <<[Name |-> "trigger-a",
                                Actions |-> <<[JobName |-> "job-a"], [JobName |-> ""]>>]>>]}}
    [] OTHER -> Listings(Items(check), maxPages, maxTotal)

RECURSIVE Product(_)
\* the sequences s with s[i] \in sets[i]
Product(sets) ==
  IF sets = <<>> THEN {<<>>}
  ELSE {<<x>> \o r : x \in Head(sets), r \in Product(Tail(sets))}

\* the answers ins[page][i] to the Usage() calls a walk of listing l makes
\* (Nil where the entry's code has no check in the walk's registry view),
\* each answer a listing of at most MaxPages pages and cap resources
InsFor(checks, l, cap) ==
  Product([k \in 1..Len(l.pages) |->
    Product([i \in 1..Len(l.pages[k]) |->
      IF l.pages[k][i].QuotaCode \in DOMAIN checks
      THEN Answers(checks[l.pages[k][i].QuotaCode], MaxPages, cap)
      ELSE {Nil}])])

\* the resources an answer lists
Listed(in) == IF "pages" \in DOMAIN in THEN Len(Flatten(in.pages)) ELSE 0

\* the catalog entries of a listing and its pages after the first
ListingCost(l) ==
  Len(Flatten(l.pages)) + (IF Len(l.pages) > 1 THEN Len(l.pages) - 1 ELSE 0)

\* the catalog listings the provider may answer a walk with when n are left
CatalogListings(n) == {l \in Listings(Quotas, MaxPages, n) : ListingCost(l) <= n}

\* what a listing and the answers to the Usage() calls of its walk cost
ListedBy(l, ins) ==
  ListingCost(l) + SumSeq([n \in 1..Len(Flatten(ins)) |-> Listed(Flatten(ins)[n])])

\* resources each answer to a walk of l may list when n items are left:
\* one, if there are enough left for every entry of l
Cap(l, n) == IF n - ListingCost(l) >= Len(Flatten(l.pages)) THEN 1 ELSE 0

\* ---------------------------------------------------------------- the refresh

VARIABLES
  region,          \* the region NewServiceQuotas was given
  isAwsChina,      \* ServiceQuotas.isAwsChina
  pc,              \* where QuotasAndUsage is: idle, quotas, defaults, others, done
  idx,             \* the loop index of the step
  allQuotaUsages,  \* the accumulating result
  origin,          \* for each record of allQuotaUsages, the step and service it came from
  ret,             \* Nil, or <<what QuotasAndUsage returned>>
  events,          \* the log of the requests made to the provider
  left,            \* list items the provider may still return
  usageCheck,      \* the check or function a direct call is made on ("" in a refresh)
  answer,          \* the provider's answer to that call, the argument of the function
  earlier,         \* how the QuotasAndUsage call before this one ended ("none" for the first)
  other            \* the locals of a second call, of another goroutine, while this one runs

vars ==
  <<region, isAwsChina, pc, idx, allQuotaUsages, origin, ret, events, left, usageCheck,
    answer, earlier, other>>

\* the locals of a QuotasAndUsage call that has not begun
NotCalled ==
  [pc |-> "idle", idx |-> 0, allQuotaUsages |-> <<>>, origin |-> <<>>, ret |-> Nil,
   events |-> <<>>]

\* NewServiceQuotas(region, profile) succeeded: the region is a valid one
Init ==
  /\ region \in {"eu-west-1", "cn-north-1"}
  /\ isValidRegion(region)[1]
  /\ isAwsChina = isValidRegion(region)[2]
  /\ pc = "idle"
  /\ idx = 0
  /\ allQuotaUsages = <<>>
  /\ origin = <<>>
  /\ ret = Nil
  /\ events = <<>>
  /\ left = MaxListed
  /\ earlier = "none"
  /\ other = NotCalled
  /\ usageCheck = ""
  /\ answer = Nil

\* the call without the test of isAwsChina
StartUnchecked ==
  /\ pc = "idle"
  /\ usageCheck = ""
  /\ pc' = "quotas"
  /\ idx' = 1
  /\ allQuotaUsages' = <<>>
  /\ UNCHANGED <<region, isAwsChina, origin, ret, events, left, usageCheck, answer, earlier, other>>

\* the call with the records kept in the ServiceQuotas and not emptied
StartKeepingRecords ==
  /\ pc = "idle"
  /\ usageCheck = ""
  /\ pc' = IF isAwsChina THEN "others" ELSE "quotas"
  /\ idx' = 1
  /\ UNCHANGED <<region, isAwsChina, allQuotaUsages, origin, ret, events, left, usageCheck,
               answer, earlier, other>>

\* QuotasAndUsage is called: allQuotaUsages := []QuotaUsage{}; if !s.isAwsChina
Start ==
  /\ pc = "idle"
  /\ usageCheck = ""
  /\ pc' = IF isAwsChina THEN "others" ELSE "quotas"
  /\ idx' = 1
  /\ allQuotaUsages' = <<>>
  /\ UNCHANGED <<region, isAwsChina, origin, ret, events, left, usageCheck, answer, earlier, other>>

\* the error returned with the records accumulated so far
ErrReturnWithRecords(err) == [usages |-> allQuotaUsages, err |-> err]

\* if err != nil { return nil, err }
ErrReturn(err) == Fail(err)

\* return allQuotaUsages, nil
OkReturn == Ok(allQuotaUsages)

\* the loop body with the new records put in front of the accumulated ones
AfterCallPrepending(r, step, from, to, n) ==
  /\ events' = r.events
  /\ UNCHANGED <<region, isAwsChina, usageCheck, answer, earlier, other>>
  /\ IF r.err # NoErr
     THEN /\ ret' = <<Fail(r.err)>>
          /\ pc' = "done"
          /\ UNCHANGED <<idx, allQuotaUsages, origin>>
     ELSE /\ allQuotaUsages' = r.usages \o allQuotaUsages
          /\ origin' = [k \in 1..Len(r.usages) |-> <<step, from>>] \o origin
          /\ ret' = ret
          /\ IF idx < n THEN idx' = idx + 1 /\ pc' = pc
             ELSE idx' = 1 /\ pc' = to

\* the loop body that notes the error of a call and goes on with the loop
AfterCallGoingOn(r, step, from, to, n) ==
  /\ events' = r.events
  /\ UNCHANGED <<region, isAwsChina, usageCheck, answer, earlier, other>>
  /\ IF r.err # NoErr
     THEN /\ ret' = <<ErrReturn(r.err)>>
          /\ UNCHANGED <<allQuotaUsages, origin>>
          /\ IF idx < n THEN idx' = idx + 1 /\ pc' = pc
             ELSE idx' = 1 /\ pc' = to
     ELSE /\ allQuotaUsages' = allQuotaUsages \o r.usages
          /\ origin' = origin \o [k \in 1..Len(r.usages) |-> <<step, from>>]
          /\ ret' = ret
          /\ IF idx < n THEN idx' = idx + 1 /\ pc' = pc
             ELSE idx' = 1 /\ pc' = to

\* a call of the loop body returned r: return its error, else append its
\* records and go on with the loop (to, n: the step after the last iteration
\* and the number of iterations)
AfterCall(r, step, from, to, n) ==
  /\ events' = r.events
  /\ UNCHANGED <<region, isAwsChina, usageCheck, answer, earlier, other>>
  /\ IF r.err # NoErr
     THEN /\ ret' = <<ErrReturn(r.err)>>
          /\ pc' = "done"
          /\ UNCHANGED <<idx, allQuotaUsages, origin>>
     ELSE /\ allQuotaUsages' = allQuotaUsages \o r.usages
          /\ origin' = origin \o [k \in 1..Len(r.usages) |-> <<step, from>>]
          /\ ret' = ret
          /\ IF idx < n THEN idx' = idx + 1 /\ pc' = pc
             ELSE idx' = 1 /\ pc' = to

\* one iteration of the first loop: quotasForService(service)
QuotasStep ==
  /\ pc = "quotas"
  /\ \E l \in CatalogListings(left) :
       \E ins \in InsFor(serviceQuotasUsageChecks, l, Cap(l, left)) :
         /\ left' = left - ListedBy(l, ins)
         /\ AfterCall(quotasForService(Services[idx], l, ins, events),
                      "quotas", Services[idx], "defaults", Len(Services))

\* one iteration of the second loop: defaultsForService(service)
DefaultsStep ==
  /\ pc = "defaults"
  /\ \E l \in CatalogListings(left) :
       \E ins \in InsFor(serviceDefaultUsageChecks, l, Cap(l, left)) :
         /\ left' = left - ListedBy(l, ins)
         /\ AfterCall(defaultsForService(Services[idx], l, ins, events),
                      "defaults", Services[idx], "others", Len(Services))

\* check.Usage() returned r: the result with the log of the call
WithLog(r, check) ==
  [usages |-> r.usages, err |-> r.err,
   events |-> Append(events, Event("usage", check, "", "", r))]

\* one iteration of the third loop: check.Usage() of otherUsageChecks[idx]
OthersStep ==
  /\ pc = "others"
  /\ idx <= Len(otherUsageChecks)
  /\ \E in \in Answers(otherUsageChecks[idx], 1, IF 1 <= left THEN 1 ELSE left) :
       /\ left' = left - Listed(in)
       /\ AfterCall(WithLog(Usage(otherUsageChecks[idx], in, Len(events) + 1),
                            otherUsageChecks[idx]),
                    "others", otherUsageChecks[idx], "others", Len(otherUsageChecks) + 1)

\* the third loop is over: return allQuotaUsages, nil
Return ==
  /\ pc = "others"
  /\ idx > Len(otherUsageChecks)
  /\ ret' = <<OkReturn>>
  /\ pc' = "done"
  /\ UNCHANGED <<region, isAwsChina, idx, allQuotaUsages, origin, events, left, usageCheck,
               answer, earlier, other>>

Next == Start \/ QuotasStep \/ DefaultsStep \/ OthersStep \/ Return

Spec == Init /\ [][Next]_vars

\* ---------------------------------------------------------------- what the claims speak of

\* the Name values a check declares for its records
DeclaredNames(check) ==
  CASE check = "RulesPerSecurityGroupUsageCheck" ->
         {ec2Names.inboundRulesPerSecGrpName, ec2Names.outboundRulesPerSecGrpName}
    [] check = "SecurityGroupsPerENIUsageCheck" -> {ec2Names.secGroupsPerENIName}
    [] check = "SecurityGroupsPerRegionUsageCheck" -> {ec2Names.securityGroupsPerRegionName}
    [] check = "StandardSpotInstanceRequestsUsageCheck" -> {ec2Names.spotInstanceRequestsName}
    [] check = "RunningOnDemandStandardInstancesUsageCheck" -> {ec2Names.onDemandInstanceRequestsName}
    [] check = "AvailableIpsPerSubnetUsageCheck" -> {ec2Names.availableIPsPerSubnetName}
    [] check \in DOMAIN VolumeNames -> {VolumeNames[check][1]}
    [] check \in DOMAIN CountNames -> {CountNames[check][1]}
    [] check = "MaxTotalStorageCheck" -> {rdsNames.MaxTotalStorageCheckName}
    [] check = "ReadReplicasPerMasterCheck" -> {rdsNames.numReadReplicasPerMasterName}
    [] check = "RepositoriesPerRegionCheck" -> {ecrNames.repositoriesPerRegionName}
    [] check = "ImagesPerRepositoryCheck" -> {ecrNames.imagesPerRepositoryName}
    [] check = "AppKPUUsageCheck" -> {kinesisanalyticsNames.flinkKPUsPerAppName}
    [] check = "AppsPerRegionCheck" -> {kinesisanalyticsNames.appsPerRegionName}
    [] check = "JobsPerTriggerCheck" -> {glueNames.jobsPerTriggerName}
    [] check = "ConcurrentRunsPerJobCheck" -> {glueNames.concurrentRunsPerJobName}
    [] check = "DPUsCheck" -> {glueNames.dPUsName}
    [] check = "ConcurrentRunsCheck" -> {glueNames.concurrentRunsName}
    [] check = "MaxSendIn24HoursCheck" -> {sesNames.maxSendIn24HoursName}
    [] check = "ASGUsageCheck" -> {asgNames.instancesPerASGName}

\* QuotasAndUsage has returned, with an error, without one
Returned == pc = "done" /\ ret # Nil /\ usageCheck = ""
Failed == Returned /\ ret[1].err # NoErr
Succeeded == Returned /\ ret[1].err = NoErr

\* the Usage() calls of the log made for a catalog entry with one of codes
UsageCalls(codes) ==
  {n \in 1..Len(events) : events[n].op = "usage" /\ events[n].code \in codes}

\* the Usage() calls of the service-specific walks, those of them that failed
Step1Calls == UsageCalls(DOMAIN serviceQuotasUsageChecks)
Step1Failures == {n \in Step1Calls : events[n].err # NoErr}

\* the requests of the log that enumerate a catalog
CatalogRequests == {n \in 1..Len(events) : events[n].op \in {"page", "listfail"}}

\* the record q with the limit the catalog reports for code
WithQuota(q, code) == [q EXCEPT !.Quota = QuotaValue(code)]

\* the position of a service in the service list
ServiceIndex(service) == CHOOSE k \in 1..Len(allServices) : allServices[k] = service

\* where in the refresh a logged request belongs: the walk of the k-th
\* service of step 1, of step 2, the k-th check of step 3
Rank(e) ==
  IF e.api = "ListServiceQuotasPages" \/ e.code \in DOMAIN serviceQuotasUsageChecks
  THEN ServiceIndex(e.service)
  ELSE IF e.api = "ListAWSDefaultServiceQuotasPages"
            \/ e.code \in DOMAIN serviceDefaultUsageChecks
       THEN Len(allServices) + ServiceIndex(e.service)
       ELSE 2 * Len(allServices)
              + (CHOOSE k \in 1..Len(otherUsageChecks) : otherUsageChecks[k] = e.api)

\* the same for the step and the service or check a record is noted to be from
OriginRank(o) ==
  CASE o[1] = "quotas" -> ServiceIndex(o[2])
    [] o[1] = "defaults" -> Len(allServices) + ServiceIndex(o[2])
    [] o[1] = "others" ->
         2 * Len(allServices)
           + (CHOOSE k \in 1..Len(otherUsageChecks) : otherUsageChecks[k] = o[2])

\* the records a logged request contributes to the result
Contribution(e) ==
  IF e.op # "usage" \/ e.err # NoErr THEN <<>>
  ELSE IF e.code = "" THEN e.usages
  ELSE [k \in 1..Len(e.usages) |-> WithQuota(e.usages[k], e.code)]

\* the first error of the log
FirstError ==
  events[CHOOSE n \in 1..Len(events) :
           events[n].err # NoErr /\ \A m \in 1..(n - 1) : events[m].err = NoErr].err

\* ---------------------------------------------------------------- the refresh: C1 to C4, C9, C10

C2_RecordsOrError ==
  /\ pc = "done" <=> ret # Nil
  /\ ret # Nil =>
       /\ ret[1].err = NoErr => ret[1].usages = allQuotaUsages
       /\ ret[1].err # NoErr => ret[1].usages = Nil

\* a no-formal-quota check failed after steps 1-2 had accumulated records
C2_Witness ==
  /\ Failed
  /\ allQuotaUsages # <<>>
  /\ events[Len(events)].code = ""
  /\ events[Len(events)].err = ret[1].err

\* C3 (as stated): after a successful QuotasAndUsage, for every quota code in
\* both a listed service's catalog and the service-specific registry, the
\* result holds at least one record with the check's declared name and the
\* catalog's value as Quota.
C3_AtLeastOneRecord ==
  Succeeded =>
    \A n \in Step1Calls :
      \E i \in 1..Len(ret[1].usages) :
        /\ ret[1].usages[i].Name \in DeclaredNames(events[n].api)
        /\ ret[1].usages[i].Quota = QuotaValue(events[n].code)

\* C3 (amended): after a successful QuotasAndUsage, every record that the
\* check registered for such a code returned carries a declared name of the
\* check and is in the result with the catalog's value as Quota; a check
\* that returned no record (a per-resource check over no resources) leaves
\* none.
C3_EveryReturnedRecord ==
  Succeeded =>
    \A n \in Step1Calls :
      \A k \in 1..Len(events[n].usages) :
        /\ events[n].usages[k].Name \in DeclaredNames(events[n].api)
        /\ \E i \in 1..Len(ret[1].usages) :
             ret[1].usages[i] = WithQuota(events[n].usages[k], events[n].code)

\* a successful refresh in which a registered check returned a record
C3_Witness ==
  /\ Succeeded
  /\ \E n \in Step1Calls : events[n].usages # <<>> /\ QuotaValue(events[n].code) # 0

\* C4 (as stated): a call for a region of the aws-cn partition enumerates no
\* catalog, calls no registry-keyed check, and calls every no-formal-quota
\* check; its result holds only their records.
C4_EveryOtherCheckCalled ==
  isAwsChina /\ Returned =>
    /\ CatalogRequests = {}
    /\ UsageCalls(DOMAIN serviceQuotasUsageChecks \cup DOMAIN serviceDefaultUsageChecks) = {}
    /\ \A k \in 1..Len(otherUsageChecks) :
         \E n \in UsageCalls({""}) : events[n].api = otherUsageChecks[k]
    /\ \A i \in 1..Len(origin) : origin[i][1] = "others"

\* C4 (amended): such a call enumerates no catalog and calls no registry-keyed
\* check; it calls the no-formal-quota checks in their order, up to and
\* including the first that fails, hence all of them when it succeeds, and
\* a successful result holds only their records.
C4_OtherChecksUntilFailure ==
  isAwsChina =>
    /\ Len(events) <= Len(otherUsageChecks)
    /\ \A n \in 1..Len(events) :
         /\ events[n].op = "usage" /\ events[n].code = ""
         /\ events[n].api = otherUsageChecks[n]
         /\ n < Len(events) => events[n].err = NoErr
    /\ Failed => events[Len(events)].err = ret[1].err
    /\ Succeeded =>
         /\ Len(events) = Len(otherUsageChecks)
         /\ ret[1].usages = Flatten([n \in 1..Len(events) |-> events[n].usages])

\* a successful call for cn-north-1 that returned records
C4_Witness ==
  isAwsChina /\ Succeeded /\ Len(ret[1].usages) >= 2

\* C9 (as stated): the error a failed QuotasAndUsage returns is the first
\* error of the refresh, in the order the catalog pages and checks are
\* visited.
C9_FirstErrorReturned ==
  Failed => ret[1].err = FirstError

\* C10: the records of the result are in the order of the requests that
\* produced them, and the requests are in step order: the service-specific
\* walks in service-list order, then the default walks in the same order,
\* then the no-formal-quota checks; no default catalog request precedes a
\* service-specific one, and by the first default catalog request every
\* listed service's own catalog has been enumerated.
C10_StepOrder ==
  /\ \A n \in 2..Len(events) : Rank(events[n - 1]) <= Rank(events[n])
  /\ (\E n \in CatalogRequests : events[n].api = "ListAWSDefaultServiceQuotasPages") =>
       \A k \in 1..Len(Services) :
         \E n \in CatalogRequests :
           /\ events[n].api = "ListServiceQuotasPages"
           /\ events[n].service = Services[k]
  /\ Len(origin) = Len(allQuotaUsages)
  /\ \A i \in 2..Len(origin) : OriginRank(origin[i - 1]) <= OriginRank(origin[i])
  /\ Succeeded =>
       ret[1].usages = Flatten([n \in 1..Len(events) |-> Contribution(events[n])])

\* a successful refresh with records from the walks of two services and
\* from a no-formal-quota check
C10_Witness ==
  /\ Succeeded
  /\ \E i, j, k \in 1..Len(origin) :
       /\ origin[i] = <<"quotas", Services[1]>>
       /\ origin[j] = <<"quotas", Services[2]>>
       /\ origin[k][1] = "others"

\* ---------------------------------------------------------------- the refresh: C12

\* the Usage() calls made for catalog entries, and whether the catalogs
\* listed every such code once (a quota code belongs to one service)
RegistryCalls == UsageCalls(DOMAIN serviceQuotasUsageChecks \cup DOMAIN serviceDefaultUsageChecks)
CodesListedOnce ==
  \A n, m \in RegistryCalls : events[n].code = events[m].code => n = m

\* C12 (as stated): no two records of a successful result share both Name
\* and Identifier.
C12_NameAndIdentifierUnique ==
  Succeeded /\ CodesListedOnce =>
    \A i, j \in 1..Len(ret[1].usages) :
      /\ ret[1].usages[i].Name = ret[1].usages[j].Name
      /\ Identifier(ret[1].usages[i]) = Identifier(ret[1].usages[j])
      => i = j

\* ---------------------------------------------------------------- the refresh: C14

\* the catalog listings of the log that failed
ListFailures == {n \in 1..Len(events) : events[n].op = "listfail"}

\* C14: once a catalog listing has failed, in either walk, QuotasAndUsage
\* has returned an error of kind "failed to list quotas" wrapping the
\* listing's error and no records, and the failed listing is the last
\* request of the refresh: no catalog page and no Usage() call follows it.
C14_ListFailureAborts ==
  \A n \in ListFailures :
    /\ n = Len(events)
    /\ Failed
    /\ ret[1].usages = Nil
    /\ ret[1].err = events[n].err
    /\ ret[1].err[1].kind = ErrFailedToListQuotas
    /\ ret[1].err[1].cause # NoErr

\* the default catalog listing of the second service failed on its second
\* page, after a check of its first page had failed and after earlier walks
\* had produced records
C14_Witness ==
  /\ allQuotaUsages # <<>>
  /\ \E n \in ListFailures :
       /\ events[n].api = "ListAWSDefaultServiceQuotasPages"
       /\ events[n].service = Services[2]
       /\ \E m \in 1..(n - 1) :
            /\ events[m].op = "usage" /\ events[m].err # NoErr

\* ---------------------------------------------------------------- the refresh: C18

\* the records the Usage() calls of the log returned, in the order returned,
\* and for each of them the catalog code its call was made for ("" for none)
StrategyRecords ==
  Flatten([n \in 1..Len(events) |->
             IF events[n].op = "usage" /\ events[n].err = NoErr
             THEN events[n].usages ELSE <<>>])
StrategyCodes ==
  Flatten([n \in 1..Len(events) |->
             IF events[n].op = "usage" /\ events[n].err = NoErr
             THEN [k \in 1..Len(events[n].usages) |-> events[n].code] ELSE <<>>])

\* C18: the records of a successful result are the records the strategies
\* returned, one for one; Name, ResourceName, Description, Usage and Tags of
\* each are as returned, and the Quota of a record of a registry-keyed
\* strategy is the value of the one catalog entry its call was made for.
C18_OnlyQuotaMerged ==
  Succeeded =>
    LET returned == StrategyRecords
        codes == StrategyCodes
    IN /\ Len(ret[1].usages) = Len(returned)
       /\ \A i \in 1..Len(ret[1].usages) :
            /\ ret[1].usages[i].Name = returned[i].Name
            /\ ret[1].usages[i].ResourceName = returned[i].ResourceName
            /\ ret[1].usages[i].Description = returned[i].Description
            /\ ret[1].usages[i].Usage = returned[i].Usage
            /\ ret[1].usages[i].Tags = returned[i].Tags
            /\ codes[i] # "" => ret[1].usages[i].Quota = QuotaValue(codes[i])

\* a successful result with records of two registry-keyed strategies whose
\* catalog values differ, one of them a per-resource record with a usage
\* other than the limit
C18_Witness ==
  /\ Succeeded
  /\ \E i, j \in 1..Len(ret[1].usages) :
       /\ StrategyCodes[i] # "" /\ StrategyCodes[j] # ""
       /\ ret[1].usages[i].Quota # ret[1].usages[j].Quota
       /\ ret[1].usages[i].ResourceName # Nil
       /\ ret[1].usages[i].Usage \notin {0, ret[1].usages[i].Quota}

\* ---------------------------------------------------------------- the refresh: C19

\* C19 (as stated): once a Usage() call made in a catalog page callback has
\* failed, the walk it belongs to visits no further page of its listing and
\* calls no further check.
C19_PagingStopsAtFailure ==
  \A n \in RegistryCalls :
    events[n].err # NoErr =>
      \A m \in (n + 1)..Len(events) :
        events[m].op \in {"page", "usage"} => Rank(events[m]) # Rank(events[n])

\* ---------------------------------------------------------------- the refresh: C29

\* the failed requests of the log that belong to a catalog walk
WalkErrors ==
  {n \in 1..Len(events) :
     events[n].err # NoErr /\ (events[n].op = "listfail" \/ events[n].code # "")}

\* C29: once a request of a service's walk has failed, QuotasAndUsage has
\* returned an error, and the refresh has made no request that belongs to
\* a later walk (a later service of the same step, any service of the
\* default step after a service-specific walk) or to a no-formal-quota
\* check.
C29_StopsAtFailedWalk ==
  \A n \in WalkErrors :
    /\ Failed
    /\ \A m \in 1..Len(events) : Rank(events[m]) <= Rank(events[n])

\* the service-specific walk of the first service failed after at least
\* two other requests of it: the walks of the second service, the default walks
\* and the no-formal-quota checks were left out
C29_Witness ==
  /\ Failed
  /\ Len(events) >= 3
  /\ \E n \in WalkErrors : Rank(events[n]) = 1 /\ events[n].service = Services[1]

\* ---------------------------------------------------------------- the refresh: C30

\* the registry view of the walk a catalog page was delivered to
ViewOf(e) ==
  IF e.api = "ListServiceQuotasPages" THEN serviceQuotasUsageChecks
  ELSE serviceDefaultUsageChecks

\* the entries of a delivered page whose code is in the view of its walk
Matched(e) ==
  LET InView(quota) == quota.QuotaCode \in DOMAIN ViewOf(e)
  IN SelectSeq(e.usages, InView)

\* C30: in a successful refresh the Usage() calls made for catalog entries
\* are, page by page, one call for each entry of the page whose code is in
\* the registry view of the page's walk, in the order of the entries, of
\* the check that view registers for the code, and no other: an entry
\* with another code is followed by no call, a code listed k times by k
\* calls, and a check is called only from the walk of its own view; the
\* result holds the records of these calls and no other; and every
\* no-formal-quota check is called once.
C30_DispatchByRegistryMatch ==
  Succeeded =>
    /\ \A n \in 1..Len(events) :
         /\ events[n].code # "" => n > 1
         /\ events[n].op = "page" =>
              /\ n + Len(Matched(events[n])) <= Len(events)
              /\ \A j \in 1..Len(Matched(events[n])) :
                   /\ events[n + j].op = "usage"
                   /\ events[n + j].code = Matched(events[n])[j].QuotaCode
                   /\ events[n + j].api = ViewOf(events[n])[Matched(events[n])[j].QuotaCode]
                   /\ events[n + j].service = events[n].service
              /\ n + Len(Matched(events[n])) < Len(events) =>
                   events[n + Len(Matched(events[n])) + 1].code = ""
    /\ Len(ret[1].usages) = Len(StrategyRecords)
    /\ \A k \in 1..Len(otherUsageChecks) :
         Cardinality({n \in UsageCalls({""}) : events[n].api = otherUsageChecks[k]}) = 1

\* a successful refresh with a page that lists a code of the view twice,
\* and with a page that lists a code that is not in the view of its walk
C30_Witness ==
  /\ Succeeded
  /\ \E n \in 1..Len(events) :
       /\ events[n].op = "page"
       /\ Len(Matched(events[n])) = 2
       /\ Matched(events[n])[1] = Matched(events[n])[2]
  /\ \E n \in 1..Len(events) :
       /\ events[n].op = "page"
       /\ Len(Matched(events[n])) < Len(events[n].usages)

\* ---------------------------------------------------------------- refresh after refresh

\* QuotasAndUsage has returned to its caller, which may call it again on the
\* same ServiceQuotas: the log starts anew, the provider goes on
CallAgain ==
  /\ pc = "done"
  /\ usageCheck = ""
  /\ pc' = "idle"
  /\ earlier' = IF ret[1].err = NoErr THEN "succeeded" ELSE "failed"
  /\ ret' = Nil
  /\ events' = <<>>
  /\ origin' = <<>>
  /\ UNCHANGED <<region, isAwsChina, idx, allQuotaUsages, left, usageCheck, answer, other>>

NextCalls == Next \/ CallAgain

\* a ServiceQuotas whose QuotasAndUsage is called more than once, one call
\* after another or two at a time: the provider holds MaxShared list items
\* for all the calls
InitShared ==
  /\ region \in {"eu-west-1", "cn-north-1"}
  /\ isValidRegion(region)[1]
  /\ isAwsChina = isValidRegion(region)[2]
  /\ pc = "idle"
  /\ idx = 0
  /\ allQuotaUsages = <<>>
  /\ origin = <<>>
  /\ ret = Nil
  /\ events = <<>>
  /\ left = MaxShared
  /\ earlier = "none"
  /\ other = NotCalled
  /\ usageCheck = ""
  /\ answer = Nil

SpecCalls == InitShared /\ [][NextCalls]_vars

\* ---------------------------------------------------------------- refresh after refresh: C17

\* the errors of the log
Errors == {n \in 1..Len(events) : events[n].err # NoErr}

\* what a refresh returns as a function of the requests it made and of what
\* the provider answered them: the error the last failed request left, else
\* the records of the Usage() calls in the order of the calls
OutcomeOf(log) ==
  IF \E n \in 1..Len(log) : log[n].err # NoErr
  THEN Fail(log[CHOOSE n \in 1..Len(log) :
                  log[n].err # NoErr /\ \A m \in (n + 1)..Len(log) : log[m].err = NoErr].err)
  ELSE Ok(Flatten([n \in 1..Len(log) |-> Contribution(log[n])]))

\* C17: what a QuotasAndUsage call returns is determined by the provider's
\* answers to the requests of that call, whether no call, a successful call
\* or a failed call went before it; and while a call runs, the records it
\* has accumulated are those of its own requests.
C17_NoStateBetweenCalls ==
  /\ Returned => ret[1] = OutcomeOf(events)
  /\ pc \in {"quotas", "defaults", "others"} /\ Errors = {} =>
       allQuotaUsages = Flatten([n \in 1..Len(events) |-> Contribution(events[n])])

\* a call that followed a failed call has returned records
C17_Witness ==
  /\ earlier = "failed"
  /\ Succeeded
  /\ ret[1].usages # <<>>

\* ---------------------------------------------------------------- two calls at a time

\* the locals of the QuotasAndUsage call that is running
Locals ==
  [pc |-> pc, idx |-> idx, allQuotaUsages |-> allQuotaUsages, origin |-> origin, ret |-> ret,
   events |-> events]

\* the goroutines switched with allQuotaUsages a field of the ServiceQuotas
\* that both calls write
SwitchSharingRecords ==
  /\ usageCheck = ""
  /\ other' = Locals
  /\ pc' = other.pc
  /\ idx' = other.idx
  /\ origin' = other.origin
  /\ ret' = other.ret
  /\ events' = other.events
  /\ UNCHANGED <<region, isAwsChina, allQuotaUsages, left, usageCheck, answer, earlier>>

\* the scheduler runs the other goroutine: its call goes on with its own
\* locals (allQuotaUsages, the loop variables, the result), the ServiceQuotas
\* and the provider being the same
Switch ==
  /\ usageCheck = ""
  /\ other' = Locals
  /\ pc' = other.pc
  /\ idx' = other.idx
  /\ allQuotaUsages' = other.allQuotaUsages
  /\ origin' = other.origin
  /\ ret' = other.ret
  /\ events' = other.events
  /\ UNCHANGED <<region, isAwsChina, left, usageCheck, answer, earlier>>

NextConcurrent == Next \/ Switch

SpecConcurrent == InitShared /\ [][NextConcurrent]_vars

\* ---------------------------------------------------------------- two calls at a time: C26

\* C26: under every interleaving of two QuotasAndUsage calls on the same
\* ServiceQuotas, what each call returns is what the provider's answers to
\* that call's own requests determine, as when it runs alone; and the
\* records each has accumulated while running are those of its own requests.
C26_CallsDoNotInterfere ==
  \A call \in {Locals, other} :
    /\ call.pc = "done" => call.ret[1] = OutcomeOf(call.events)
    /\ call.pc \in {"quotas", "defaults", "others"}
         /\ (\A n \in 1..Len(call.events) : call.events[n].err = NoErr) =>
           call.allQuotaUsages =
             Flatten([n \in 1..Len(call.events) |-> Contribution(call.events[n])])

\* both calls are under way, each with records of its own
C26_Witness ==
  /\ pc \in {"quotas", "defaults", "others"}
  /\ other.pc \in {"quotas", "defaults", "others"}
  /\ allQuotaUsages # <<>>
  /\ other.allQuotaUsages # <<>>
  /\ allQuotaUsages # other.allQuotaUsages

\* ---------------------------------------------------------------- one check on its own

\* every check of the package
Checks ==
  {serviceQuotasUsageChecks[code] : code \in DOMAIN serviceQuotasUsageChecks}
    \cup {serviceDefaultUsageChecks[code] : code \in DOMAIN serviceDefaultUsageChecks}
    \cup {otherUsageChecks[n] : n \in 1..Len(otherUsageChecks)}
    \cup {"MaxTotalStorageCheck"}

\* a check is constructed on a client whose requests the provider answers
\* with answer
InitUsage ==
  /\ usageCheck \in Checks
  /\ answer \in Answers(usageCheck, MaxPages, MaxItems)
  /\ region = "eu-west-1"
  /\ isAwsChina = FALSE
  /\ pc = "idle"
  /\ idx = 0
  /\ allQuotaUsages = <<>>
  /\ origin = <<>>
  /\ ret = Nil
  /\ events = <<>>
  /\ left = 0
  /\ earlier = "none"
  /\ other = NotCalled

\* check.Usage() is called and returns
CallUsage ==
  /\ pc = "idle"
  /\ usageCheck # ""
  /\ ret' = <<Usage(usageCheck, answer, 1)>>
  /\ pc' = "done"
  /\ UNCHANGED <<region, isAwsChina, idx, allQuotaUsages, origin, events, left, usageCheck,
               answer, earlier, other>>

NextUsage == CallUsage

SpecUsage == InitUsage /\ [][NextUsage]_vars

\* ---------------------------------------------------------------- one check on its own: C5 to C8

\* the records the check returned
Records == IF pc = "done" /\ usageCheck # "" THEN ret[1].usages ELSE <<>>

\* the subnets the provider listed, when the check is the subnet check
ListedSubnets ==
  IF usageCheck = "AvailableIpsPerSubnetUsageCheck" THEN Flatten(answer.pages) ELSE <<>>

\* the text after the '/' of a CIDR block
Suffix(cidrBlock) ==
  SubSeq(cidrBlock, (CHOOSE i \in 1..Len(cidrBlock) : cidrBlock[i] = "/") + 1, Len(cidrBlock))

\* the prefix length a subnet's CIDR block states
PrefixLength(subnet) == Atoi(Suffix(subnet.CidrBlock))

\* the subnet check was called on a listing that did not fail
SubnetsListed ==
  pc = "done" /\ usageCheck = "AvailableIpsPerSubnetUsageCheck" /\ ~answer.fails

C6_SubnetRecord ==
  SubnetsListed /\ (\A i \in 1..Len(ListedSubnets) : PrefixLength(ListedSubnets[i]).err = NoErr)
    => /\ ret[1].err = NoErr
       /\ Len(Records) = Len(ListedSubnets)
       /\ \A i \in 1..Len(Records) :
            /\ Records[i].ResourceName = <<ListedSubnets[i].SubnetId>>
            /\ Records[i].Quota = Pow2(32 - PrefixLength(ListedSubnets[i]).val)
            /\ Records[i].Usage = Pow2(32 - PrefixLength(ListedSubnets[i]).val)
                                    - ListedSubnets[i].AvailableIpAddressCount

\* C7 (as stated): the subnet check fails with the CIDR conversion error
\* exactly when the text after the '/' of some listed subnet's block is not
\* a valid integer; otherwise it succeeds, with that integer as the prefix
\* length of each record.
C7_ConversionErrorIffInvalid ==
  SubnetsListed =>
    /\ (ret[1].err # NoErr /\ ret[1].err[1].kind = ErrFailedToConvertCidr)
         <=> (\E i \in 1..Len(ListedSubnets) : PrefixLength(ListedSubnets[i]).err # NoErr)
    /\ (\A i \in 1..Len(ListedSubnets) : PrefixLength(ListedSubnets[i]).err = NoErr) =>
         /\ ret[1].err = NoErr
         /\ Len(Records) = Len(ListedSubnets)
         /\ \A i \in 1..Len(Records) :
              Records[i].Quota = Pow2(32 - PrefixLength(ListedSubnets[i]).val)

ScalarTotalChecks ==
  {"LogGroupsPerRegionCheck", "ENIsPerRegionCheck", "SecurityGroupsPerRegionUsageCheck",
   "EbsSnapshotsPerRegionCheck", "JobsPerAccountCheck", "RepositoriesPerRegionCheck",
   "AppsPerRegionCheck"} \cup StorageChecks \cup IopsChecks

\* a scalar-total check was called on a listing that did not fail
ScalarTotalListed == pc = "done" /\ usageCheck \in ScalarTotalChecks /\ ~answer.fails

\* the items of the listing delivered as one page
OnOnePage == [pages |-> <<Flatten(answer.pages)>>, fails |-> FALSE]

\* C11 (as stated): a scalar-total check returns for a listing what it
\* returns for the same items delivered as one page.
C11_PageSplitIndependent ==
  ScalarTotalListed => ret[1] = Usage(usageCheck, OnOnePage, 1)

\* C20 (as stated): a successful Usage() call of a scalar-total check returns
\* exactly one record, however many pages the listing delivers.
C20_OneRecord ==
  ScalarTotalListed => ret[1].err = NoErr /\ Len(Records) = 1
\* a composite check was called and the enumeration it makes for a parent
\* failed: ListImagesPages of a listed repository, DescribeApplication of
\* a listed application, BatchGetTriggers of the listed triggers,
\* GetJobRunsPages of a listed job
SecondEnumerationFailed ==
  /\ pc = "done"
  /\ CASE usageCheck = "ImagesPerRepositoryCheck" ->
            ~answer.fails /\ \E name \in Names(answer) : answer.images[name].fails
       [] usageCheck = "AppKPUUsageCheck" ->
            \E app \in Names(answer) : app.describeFails
       [] usageCheck = "JobsPerTriggerCheck" -> ~answer.fails /\ answer.batch.fails
       [] usageCheck = "ConcurrentRunsCheck" ->
            \E name \in Names(answer) : answer.runs[name].fails
       [] OTHER -> FALSE

\* C13 (as stated): when the second enumeration of a composite check fails
\* for a parent, Usage() returns a failed-to-get-usage error and no
\* records, and it does return.
C13_ParentFailureReturned ==
  SecondEnumerationFailed =>
    /\ "panic" \notin DOMAIN ret[1]
    /\ ret[1].err # NoErr
    /\ ret[1].err[1].kind = ErrFailedToGetUsage
    /\ ret[1].usages = Nil
\* ---------------------------------------------------------------- one check on its own: C21, C22

\* the runs the provider lists for the jobs it lists, job after job
ListedRuns ==
  IF usageCheck = "ConcurrentRunsCheck"
  THEN Flatten([n \in 1..Len(Flatten(answer.pages)) |->
                  Flatten(answer.runs[Flatten(answer.pages)[n]].pages)])
  ELSE <<>>

\* the concurrent-runs check was called and none of its listings failed
RunsListed ==
  /\ pc = "done"
  /\ usageCheck = "ConcurrentRunsCheck"
  /\ ~answer.fails
  /\ \A name \in Names(answer) : ~answer.runs[name].fails

\* C21 (as stated): the concurrent-runs check returns one record whose Usage
\* is the number of runs, over all jobs and all pages of runs, whose state
\* is RUNNING.
C21_CountsRunningRuns ==
  RunsListed =>
    /\ Len(Records) = 1
    /\ Records[1].Usage =
         Cardinality({n \in 1..Len(ListedRuns) : ListedRuns[n].JobRunState.val = "RUNNING"})

\* C22 (as stated): when BatchGetTriggers fails after the triggers were
\* listed, the jobs-per-trigger check returns no records and a
\* failed-to-get-usage error that wraps an underlying error.
C22_BatchFailureCarriesCause ==
  pc = "done" /\ usageCheck = "JobsPerTriggerCheck" /\ ~answer.fails /\ answer.batch.fails =>
    /\ ret[1].usages = Nil
    /\ ret[1].err # NoErr
    /\ ret[1].err[1].kind = ErrFailedToGetUsage
    /\ ret[1].err[1].cause # NoErr

\* ---------------------------------------------------------------- one check on its own: C23

\* a storage-per-type check was called on a listing that did not fail
VolumesListed == pc = "done" /\ usageCheck \in StorageChecks /\ ~answer.fails

\* the sizes in GiB of the volumes listed, page after page
ListedSizes ==
  IF usageCheck \in StorageChecks
  THEN [n \in 1..Len(Flatten(answer.pages)) |-> Flatten(answer.pages)[n].Size]
  ELSE <<>>

\* C23: a storage-per-type check returns one record whose Usage is the sum
\* of the sizes in GiB of all listed volumes, over all pages, divided by
\* 1024 and truncated once; the same volumes on one page give the same.
C23_StorageTruncatedOnce ==
  VolumesListed =>
    /\ Len(Records) = 1
    /\ Records[1].Usage = SumSeq(ListedSizes) \div 1024
    /\ Records[1].Usage = Usage(usageCheck, OnOnePage, 1).usages[1].Usage

\* two volumes of 600 GiB on two pages: neither page holds a TiB, the two
\* together do
C23_Witness ==
  /\ VolumesListed
  /\ Len(answer.pages) = 2
  /\ \A k \in 1..2 : SumSizes(answer.pages[k]) < 1024
  /\ Records[1].Usage = 1

\* ---------------------------------------------------------------- one check on its own: C24

\* the security groups the provider listed, page after page
ListedGroups ==
  IF usageCheck = "RulesPerSecurityGroupUsageCheck" THEN Flatten(answer.pages) ELSE <<>>

\* C24 (as stated): the rules-per-security-group check returns two records
\* for each listed group, both with the group id as ResourceName and the
\* same Tags: an inbound record whose Usage is the sum over the ingress
\* permissions of IP ranges plus user-id group pairs, and an outbound record
\* whose Usage is that sum over the egress permissions.
C24_TwoRecordsPerGroup ==
  pc = "done" /\ usageCheck = "RulesPerSecurityGroupUsageCheck" /\ ~answer.fails =>
    /\ Len(Records) = 2 * Len(ListedGroups)
    /\ \A n \in 1..Len(ListedGroups) :
         /\ Records[2 * n - 1].Name = ec2Names.inboundRulesPerSecGrpName
         /\ Records[2 * n].Name = ec2Names.outboundRulesPerSecGrpName
         /\ Records[2 * n - 1].ResourceName = <<ListedGroups[n].GroupId>>
         /\ Records[2 * n].ResourceName = <<ListedGroups[n].GroupId>>
         /\ Records[2 * n - 1].Tags = Records[2 * n].Tags
         /\ Records[2 * n - 1].Usage =
              SumRanges(ListedGroups[n].IpPermissions) + SumPairs(ListedGroups[n].IpPermissions)
         /\ Records[2 * n].Usage =
              SumRanges(ListedGroups[n].IpPermissionsEgress)
                + SumPairs(ListedGroups[n].IpPermissionsEgress)

\* ---------------------------------------------------------------- one check on its own: C27, C28

\* the applications the provider lists over the pages of the token chain
ListedApps ==
  IF usageCheck \in {"AppKPUUsageCheck", "AppsPerRegionCheck"}
  THEN Flatten(answer.pages) ELSE <<>>

\* C27: a streaming-analytics check called on a finite chain of pages
\* returns; when a ListApplications request of the chain fails it returns a
\* failed-to-get-usage error and no records; else the loop has visited
\* every page once and in order, up to the page without a next token:
\* apps-per-region returns one record whose Usage is the number of
\* applications over all pages, KPUs-per-app the applications' records in
\* the order of the pages.
C27_TokenLoop ==
  pc = "done" /\ usageCheck \in {"AppKPUUsageCheck", "AppsPerRegionCheck"} =>
    /\ answer.fails /\ (\A n \in 1..Len(ListedApps) : ~ListedApps[n].describeFails) =>
         /\ ret[1].err = Wrapf(ErrFailedToGetUsage, <<AwsErr("ListApplications", 1)>>)
         /\ ret[1].usages = Nil
    /\ ~answer.fails /\ usageCheck = "AppsPerRegionCheck" =>
         /\ ret[1].err = NoErr
         /\ Len(Records) = 1
         /\ Records[1].Usage = Len(ListedApps)
    /\ ~answer.fails /\ usageCheck = "AppKPUUsageCheck"
         /\ (\A n \in 1..Len(ListedApps) : ~ListedApps[n].describeFails) =>
           /\ ret[1].err = NoErr
           /\ [n \in 1..Len(Records) |-> Records[n].ResourceName[1]]
                = [n \in 1..Len(ListedApps) |-> ListedApps[n].ApplicationName]

\* apps-per-region has counted the applications of two pages
C27_Witness ==
  /\ pc = "done"
  /\ usageCheck = "AppsPerRegionCheck"
  /\ ~answer.fails
  /\ Len(answer.pages) = 2
  /\ answer.pages[1] # <<>> /\ answer.pages[2] # <<>>
  /\ Records[1].Usage = 2

\* C28: KPUs-per-app returns one record for each application of each page,
\* with the application's name as ResourceName and its reported current
\* parallelism plus one as Usage.
C28_OneRecordPerApp ==
  pc = "done" /\ usageCheck = "AppKPUUsageCheck" /\ ~answer.fails
    /\ (\A n \in 1..Len(ListedApps) : ~ListedApps[n].describeFails) =>
      /\ ret[1].err = NoErr
      /\ Len(Records) = Len(ListedApps)
      /\ \A n \in 1..Len(Records) :
           /\ Records[n].Name = kinesisanalyticsNames.flinkKPUsPerAppName
           /\ Records[n].ResourceName = <<ListedApps[n].ApplicationName>>
           /\ Records[n].Usage = ListedApps[n].CurrentParallelism + 1

\* two applications on two pages, each with its record
C28_Witness ==
  /\ pc = "done"
  /\ usageCheck = "AppKPUUsageCheck"
  /\ Len(answer.pages) = 2
  /\ Len(Records) = 2
  /\ Records[1].ResourceName # Records[2].ResourceName
  /\ Records[2].Usage = 5

\* ---------------------------------------------------------------- a tag key on its own

SecurityGroupID ==
  <<"S", "e", "c", "u", "r", "i", "t", "y", "G", "r", "o", "u", "p", "I", "D">>

\* ToPrometheusNamingFormat is given a tag key: one of up to MaxNameLen
\* characters (a lowercase letter, uppercase letters, a digit, the
\* underscore, characters that are no label characters), SecurityGroupID or
\* eth0
InitName ==
  /\ usageCheck = "ToPrometheusNamingFormat"
  /\ answer \in SeqsOf({"a", "B", "C", "0", "_", "-", "."}, 0, MaxNameLen)
                  \cup {SecurityGroupID, <<"e", "t", "h", "0">>}
  /\ region = "eu-west-1"
  /\ isAwsChina = FALSE
  /\ pc = "idle"
  /\ idx = 0
  /\ allQuotaUsages = <<>>
  /\ origin = <<>>
  /\ ret = Nil
  /\ events = <<>>
  /\ left = 0
  /\ earlier = "none"
  /\ other = NotCalled

\* ToPrometheusNamingFormat(s) is called and returns
CallName ==
  /\ pc = "idle"
  /\ usageCheck = "ToPrometheusNamingFormat"
  /\ ret' = <<ToPrometheusNamingFormat(answer)>>
  /\ pc' = "done"
  /\ UNCHANGED <<region, isAwsChina, idx, allQuotaUsages, origin, events, left, usageCheck,
               answer, earlier, other>>

NextName == CallName

SpecName == InitName /\ [][NextName]_vars

\* ---------------------------------------------------------------- a tag key on its own: C15, C16

\* ToPrometheusNamingFormat has returned
Named == pc = "done" /\ usageCheck = "ToPrometheusNamingFormat"

\* C15: ToPrometheusNamingFormat applied to what it returned returns the
\* same string, and what it returns holds lowercase letters, digits and
\* underscores only.
C15_Idempotent ==
  Named =>
    /\ ToPrometheusNamingFormat(ret[1]) = ret[1]
    /\ \A i \in 1..Len(ret[1]) : IsLower(ret[1][i]) \/ IsDigit(ret[1][i]) \/ ret[1][i] = "_"

\* a key with a character replaced and a boundary split has been converted
C15_Witness ==
  /\ Named
  /\ answer = <<"a", "B", ".", "C">>
  /\ ret[1] = <<"a", "_", "b", "_", "c">>

\* t[i] and t[i + 1] are a boundary: a lowercase letter (or, with digits, a
\* digit) and then an uppercase letter
Boundary(t, i, digits) ==
  /\ i < Len(t)
  /\ IsLower(t[i]) \/ (digits /\ IsDigit(t[i]))
  /\ IsUpper(t[i + 1])

RECURSIVE Split(_, _, _)
\* t from its i-th character on, with "_" put in at the boundaries of t
Split(t, i, digits) ==
  IF i > Len(t) THEN <<>>
  ELSE <<t[i]>> \o (IF Boundary(t, i, digits) THEN <<"_">> ELSE <<>>) \o Split(t, i + 1, digits)

\* the string of the claim: characters outside [A-Za-z0-9_] replaced by "_",
\* then "_" put in at every boundary, then all in lowercase
MetricName(s, digits) ==
  LET t == [i \in 1..Len(s) |->
              IF IsLower(s[i]) \/ IsUpper(s[i]) \/ IsDigit(s[i]) \/ s[i] = "_" THEN s[i] ELSE "_"]
      u == Split(t, 1, digits)
  IN [i \in 1..Len(u) |->
        IF IsUpper(u[i]) THEN LowerChars[CHOOSE d \in 1..26 : UpperChars[d] = u[i]] ELSE u[i]]

\* C16 (as stated): ToPrometheusNamingFormat puts "_" in where a lowercase
\* letter is followed by an uppercase letter, and nowhere else.
C16_LowerUpperBoundaries ==
  Named => ret[1] = MetricName(answer, FALSE)

\* C16 (amended): it puts "_" in where a lowercase letter or a digit is
\* followed by an uppercase letter, and nowhere else.
C16_LowerOrDigitUpperBoundaries ==
  Named => ret[1] = MetricName(answer, TRUE)

\* SecurityGroupID has been converted to security_group_id
C16_Witness ==
  /\ Named
  /\ answer = SecurityGroupID
  /\ ret[1] = <<"s", "e", "c", "u", "r", "i", "t", "y", "_", "g", "r", "o", "u", "p", "_",
                "i", "d">>
\* ---------------------------------------------------------------- the tags of a resource on their own

\* ec2TagsToQuotaUsageTags is given the tags of a resource: at most MaxItems
\* tags with keys that differ, four of the keys differing only in what
\* ToPrometheusNamingFormat rewrites
InitTags ==
  /\ usageCheck = "ec2TagsToQuotaUsageTags"
  /\ answer \in
       {tags \in SeqsOf([Key : {<<"a", "-", "b">>, <<"a", "_", "b">>, <<"a", ".", "b">>,
                                <<"a", "B">>, <<"N", "a", "m", "e">>},
                         Value : {"web", "db"}], 0, MaxItems) :
          \A n, m \in 1..Len(tags) : tags[n].Key = tags[m].Key => n = m}
  /\ region = "eu-west-1"
  /\ isAwsChina = FALSE
  /\ pc = "idle"
  /\ idx = 0
  /\ allQuotaUsages = <<>>
  /\ origin = <<>>
  /\ ret = Nil
  /\ events = <<>>
  /\ left = 0
  /\ earlier = "none"
  /\ other = NotCalled

\* ec2TagsToQuotaUsageTags(tags) is called and returns
CallTags ==
  /\ pc = "idle"
  /\ usageCheck = "ec2TagsToQuotaUsageTags"
  /\ ret' = <<ec2TagsToQuotaUsageTags(answer)>>
  /\ pc' = "done"
  /\ UNCHANGED <<region, isAwsChina, idx, allQuotaUsages, origin, events, left, usageCheck,
               answer, earlier, other>>

NextTags == CallTags

SpecTags == InitTags /\ [][NextTags]_vars

\* ---------------------------------------------------------------- the tags of a resource on their own: C25

\* C25 (as stated): the conversion returns nil for no tags, and else a
\* mapping with the entry ToPrometheusNamingFormat(key) -> value for every
\* tag and with as many entries as there are tags.
C25_EveryTagKept ==
  pc = "done" /\ usageCheck = "ec2TagsToQuotaUsageTags" =>
    IF answer = <<>> THEN ret[1] = Nil
    ELSE /\ \A n \in 1..Len(answer) :
              /\ ToPrometheusNamingFormat(answer[n].Key) \in DOMAIN ret[1]
              /\ ret[1][ToPrometheusNamingFormat(answer[n].Key)] = answer[n].Value
         /\ Cardinality(DOMAIN ret[1]) = Len(answer)

====
